---------------------------- MODULE Spec2Model ----------------------------
(***************************************************************************)
(* A model of the loan operations system: the LoanFile data model          *)
(* (src/src/models/loan_file.py), the crew that runs the six stages        *)
(* (src/src/crew.py) and the command-line driver (src/main.py).            *)
(*                                                                         *)
(* JSON objects and Python dicts are functions from keys to values; an     *)
(* absent key is a key outside the DOMAIN.  JSON null and Python None are  *)
(* the value None.                                                         *)
(***************************************************************************)
EXTENDS Integers, Sequences, FiniteSets, TLC

VARIABLES
    json_file,            \* the JSON document of the loan file on disk
    pc,                   \* where the processing of the loan stands
    loan_file,            \* the LoanFile object (NoObject before loading)
    result,               \* the dict process_single_loan returns
    loan_context,         \* the context string built by _setup_tasks
    communication_needs,  \* the needs string built by _setup_tasks
    init_record,          \* the LoanFile as it stood in __init__
    run_start,            \* the LoanFile as it stood when run() was called
    committed,            \* the LoanFile when the last stage completed
    run_no,               \* number of calls of run() so far
    mods,                 \* number of changes a client made to the record
    stage_state,          \* per stage: pending, running, done, failed
    stage_input,          \* per stage: what the stage received
    task_output,          \* per stage: the task's stored output
    dict_out,             \* the dict to_dict produced
    reloaded,             \* the LoanFile loaded back from dict_out
    loan_files,           \* batch: the loan files found, in order
    batch_i,              \* batch: number of files handled so far
    results,              \* batch: the results list of main
    processed,            \* batch: per file, calls of process_single_loan
    summary,              \* batch: the printed summary
    now,                  \* tools: the day datetime.now() falls on
    tool_call,            \* tools: the last call, its tool and arguments
    tool_output,          \* tools: what the last call returned
    tool_day,             \* tools: the day the last call was made on
    prev_output,          \* tools: what the same call returned before
    prev_now,             \* tools: the day of that earlier call
    fee_table             \* tools: the fee dict the last funding call built

vars == <<json_file, pc, loan_file, result, loan_context, communication_needs,
          init_record, run_start, committed, run_no, mods, stage_state,
          stage_input, task_output, dict_out, reloaded, loan_files, batch_i,
          results, processed, summary, now, tool_call, tool_output,
          tool_day, prev_output, prev_now, fee_table>>

pipeline_vars == <<loan_context, communication_needs, init_record, run_start,
                   committed, run_no, mods, stage_state, stage_input,
                   task_output>>

roundtrip_vars == <<dict_out, reloaded>>

batch_vars == <<loan_files, batch_i, results, processed, summary>>

tool_vars ==
    <<now, tool_call, tool_output, tool_day, prev_output, prev_now, fee_table>>

-----------------------------------------------------------------------------
(* Values *)

None == "null"

NoObject == [k \in {} |-> k]

\* dict.get(key, default)
Get(obj, key, default) == IF key \in DOMAIN obj THEN obj[key] ELSE default

\* dict.get(key): None when the key is absent
GetOpt(obj, key) == Get(obj, key, None)

\* {**a, **b}: the keys of b over those of a
Merge(a, b) ==
    [k \in DOMAIN a \cup DOMAIN b |-> IF k \in DOMAIN b THEN b[k] ELSE a[k]]

\* Python truthiness of an Optional[str]
Truthy(x) == x # None /\ x # ""

\* class DocumentStatus(Enum)
DocumentStatus == {"pending", "received", "verified", "rejected", "expired"}

\* class FundingStatus(Enum)
FundingStatus ==
    {"approved", "document_collection", "verification", "compliance_review",
     "exception_handling", "ready_to_fund", "funded", "suspended"}

\* The keys from_json reads with data[...], in the order cls(...) reads them
RequiredFields ==
    <<"loan_id", "borrower_name", "borrower_email", "loan_type",
      "loan_amount", "interest_rate", "term_months", "approval_date">>

\* The order in which the documents of a JSON object are visited
DocOrder == <<"signed_application", "proof_of_income", "bank_statements">>

RECURSIVE SeqFilterIdx(_, _, _)
\* the indices i >= from of seq whose element satisfies keep, in order
SeqFilterIdx(seq, keep, from) ==
    IF from > Len(seq) THEN <<>>
    ELSE IF seq[from] \in keep
         THEN <<from>> \o SeqFilterIdx(seq, keep, from + 1)
         ELSE SeqFilterIdx(seq, keep, from + 1)

\* list comprehension [x for x in seq if x in keep]
SeqFilter(seq, keep) ==
    LET idx == SeqFilterIdx(seq, keep, 1)
    IN  [i \in 1..Len(idx) |-> seq[idx[i]]]

-----------------------------------------------------------------------------
(* src/src/models/loan_file.py *)

\* Document(name=..., status=..., received_date=..., verified_date=...)
Document(name, status, received_date, verified_date) ==
    [name |-> name, status |-> status, received_date |-> received_date,
     verified_date |-> verified_date, verified_by |-> None,
     rejection_reason |-> None, expiration_date |-> None, notes |-> None]

\* ComplianceCheck(check_name=..., passed=..., findings=...)
ComplianceCheck(check_name, passed, findings) ==
    [check_name |-> check_name, passed |-> passed, checked_date |-> None,
     checked_by |-> None, findings |-> findings, requires_override |-> FALSE]

\* Exception(exception_id=..., ..., resolution=...)
ExceptionEntry(exception_id, category, description, severity, created_date, resolved_date, resolution) ==
    [exception_id |-> exception_id, category |-> category,
     description |-> description, severity |-> severity,
     created_date |-> created_date, resolved_date |-> resolved_date,
     resolution |-> resolution, assigned_to |-> None]

Raise(exc, arg) == [ok |-> FALSE, error |-> [exc |-> exc, arg |-> arg]]

Return(value) == [ok |-> TRUE, value |-> value]

\* the document statuses of data that DocumentStatus(...) rejects, in order
BadDocStatuses(data) ==
    LET docs == Get(data, "documents", NoObject)
        bad == {n \in DOMAIN docs :
                   Get(docs[n], "status", "pending") \notin DocumentStatus}
        names == SeqFilter(DocOrder, bad)
    IN  [i \in 1..Len(names) |-> Get(docs[names[i]], "status", "pending")]

Range(seq) == {seq[i] : i \in DOMAIN seq}

\* the required keys data lacks, in the order cls(...) reads them
MissingFields(data) ==
    SeqFilter(RequiredFields, {f \in Range(RequiredFields) : f \notin DOMAIN data})

\* the documents loop of from_json
ParseDocuments(data) ==
    LET docs == Get(data, "documents", NoObject)
    IN  [n \in DOMAIN docs |->
            Document(Get(docs[n], "name", n),
                     Get(docs[n], "status", "pending"),
                     GetOpt(docs[n], "received_date"),
                     GetOpt(docs[n], "verified_date"))]

\* the compliance checks loop of from_json
ParseComplianceChecks(data) ==
    LET checks == Get(data, "compliance_checks", NoObject)
    IN  [n \in DOMAIN checks |->
            ComplianceCheck(Get(checks[n], "check_name", n),
                            GetOpt(checks[n], "passed"),
                            GetOpt(checks[n], "findings"))]

\* the exceptions loop of from_json
ParseExceptions(data) ==
    LET excs == Get(data, "exceptions", <<>>)
    IN  [i \in 1..Len(excs) |->
            ExceptionEntry(Get(excs[i], "id", ""),
                           Get(excs[i], "category", ""),
                           Get(excs[i], "description", ""),
                           Get(excs[i], "severity", "medium"),
                           Get(excs[i], "created_date", ""),
                           GetOpt(excs[i], "resolved_date"),
                           GetOpt(excs[i], "resolution"))]

\* a from_json that reads actual_funding_date from the JSON
ReadActualFundingDate(data) == GetOpt(data, "actual_funding_date")

\* the value from_json gives actual_funding_date: cls(...) is not passed
\* it, so the dataclass default stands whatever the JSON holds
LoadedActualFundingDate(data) == None

\* the values from_json gives funding_amount, funding_method and
\* disbursement_account: the dataclass defaults
LoadedFundingDetails(data) ==
    [funding_amount |-> None, funding_method |-> None,
     disbursement_account |-> None]

\* the cls(...) call of from_json, every required key being present
BuildLoanFile(data) ==
    Merge(
      [loan_id |-> data["loan_id"],
       borrower_name |-> data["borrower_name"],
       borrower_email |-> data["borrower_email"],
       borrower_phone |-> Get(data, "borrower_phone", ""),
       loan_type |-> data["loan_type"],
       loan_amount |-> data["loan_amount"],
       interest_rate |-> data["interest_rate"],
       term_months |-> data["term_months"],
       approval_date |-> data["approval_date"],
       approval_conditions |-> Get(data, "approval_conditions", <<>>),
       underwriter |-> Get(data, "underwriter", ""),
       funding_status |-> Get(data, "funding_status", "approved"),
       target_funding_date |-> GetOpt(data, "target_funding_date"),
       actual_funding_date |-> LoadedActualFundingDate(data),
       documents |-> ParseDocuments(data),
       compliance_checks |-> ParseComplianceChecks(data),
       exceptions |-> ParseExceptions(data),
       communications |-> Get(data, "communications", <<>>)],
      LoadedFundingDetails(data))

\* a from_json that keeps any funding status tag as it is
AnyFundingStatus(tag) == TRUE

\* FundingStatus(tag): the Enum lookup succeeds for the values of the Enum
\* and raises ValueError for anything else
ValidFundingStatus(tag) == tag \in FundingStatus

\* LoanFile.from_json, from the parsed JSON document on: the value
\* returned, or the exception raised
from_json(data) ==
    LET bad == BadDocStatuses(data)
        missing == MissingFields(data)
        status == Get(data, "funding_status", "approved")
    IN  IF Len(bad) > 0 THEN Raise("ValueError", bad[1])
        ELSE IF Len(missing) > 0 THEN Raise("KeyError", missing[1])
        ELSE IF ~ValidFundingStatus(status) THEN Raise("ValueError", status)
        ELSE Return(BuildLoanFile(data))

\* the entry to_dict writes for one exception
ExceptionToDict(e) ==
    [id |-> e.exception_id, category |-> e.category,
     description |-> e.description, severity |-> e.severity,
     resolved |-> (e.resolved_date # None)]

\* LoanFile.to_dict
to_dict(lf) ==
    [loan_id |-> lf.loan_id,
     borrower_name |-> lf.borrower_name,
     borrower_email |-> lf.borrower_email,
     borrower_phone |-> lf.borrower_phone,
     loan_type |-> lf.loan_type,
     loan_amount |-> lf.loan_amount,
     interest_rate |-> lf.interest_rate,
     term_months |-> lf.term_months,
     approval_date |-> lf.approval_date,
     approval_conditions |-> lf.approval_conditions,
     underwriter |-> lf.underwriter,
     funding_status |-> lf.funding_status,
     target_funding_date |-> lf.target_funding_date,
     actual_funding_date |-> lf.actual_funding_date,
     documents |-> [k \in DOMAIN lf.documents |->
                      [name |-> lf.documents[k].name,
                       status |-> lf.documents[k].status,
                       received_date |-> lf.documents[k].received_date,
                       verified_date |-> lf.documents[k].verified_date]],
     compliance_checks |-> [k \in DOMAIN lf.compliance_checks |->
                      [check_name |-> lf.compliance_checks[k].check_name,
                       passed |-> lf.compliance_checks[k].passed,
                       findings |-> lf.compliance_checks[k].findings]],
     exceptions |-> [i \in 1..Len(lf.exceptions) |->
                      ExceptionToDict(lf.exceptions[i])],
     communications |-> lf.communications]

-----------------------------------------------------------------------------
(* The loan files the model reads *)

\* most documents a loan file of the model holds
MaxDocs == 1

\* most exceptions a loan file of the model holds
MaxExceptions == 1

Without(obj, key) == [k \in DOMAIN obj \ {key} |-> obj[k]]

\* a loan file with every required key and no optional one
BaseJson ==
    [loan_id |-> "LOAN001", borrower_name |-> "Ada Okafor",
     borrower_email |-> "ada@example.com", loan_type |-> "personal",
     loan_amount |-> 100000, interest_rate |-> 6, term_months |-> 60,
     approval_date |-> "2024-01-02"]

StatusOptions ==
    {NoObject} \cup
    {[funding_status |-> t] : t \in FundingStatus \cup {"bogus", None}}

DocJsons ==
    {NoObject,
     [status |-> "pending"],
     [status |-> "received", received_date |-> "2024-01-05"],
     [name |-> "income", status |-> "verified",
      received_date |-> "2024-01-05", verified_date |-> "2024-01-09"],
     [status |-> "expired", received_date |-> "2023-06-01"],
     [status |-> "bogus"]}

DocNames == {DocOrder[i] : i \in 1..MaxDocs}

DocumentOptions ==
    {NoObject} \cup
    {[documents |-> d] :
        d \in UNION {[names -> DocJsons] : names \in SUBSET DocNames}}

ExceptionJsons ==
    {NoObject,
     [id |-> "EXC-1", category |-> "document",
      description |-> "pay stub missing", severity |-> "low",
      created_date |-> "2024-01-10"],
     [id |-> "EXC-2", category |-> "verification",
      description |-> "identity mismatch", severity |-> "critical",
      created_date |-> "2024-01-10", resolved_date |-> "2024-01-12",
      resolution |-> "waived by underwriter"],
     [id |-> "EXC-3", category |-> "compliance",
      description |-> "disclosure late", severity |-> "high",
      created_date |-> "2024-01-11", resolved_date |-> ""]}

ExceptionOptions ==
    {NoObject} \cup
    {[exceptions |-> e] :
        e \in UNION {[1..n -> ExceptionJsons] : n \in 0..MaxExceptions}}

ComplianceOptions ==
    {NoObject,
     [compliance_checks |->
        [know_your_customer |-> [passed |-> "false",
                                 findings |-> "KYC verification incomplete"],
         fair_lending |-> [check_name |-> "fair_lending", passed |-> "true"],
         privacy_disclosure |-> NoObject]]}

\* keys a loan file may carry that from_json does not read
FundingOptions ==
    {NoObject,
     [actual_funding_date |-> "2024-02-01", funding_method |-> "wire",
      disbursement_account |-> "ACCT-4411"]}

OptionalOptions ==
    {NoObject,
     [borrower_phone |-> "555-0101", underwriter |-> "J. Mensah",
      approval_conditions |-> <<"proof of insurance">>,
      target_funding_date |-> "2024-02-01"]}

\* the loan files with every required key
CompleteJsons ==
    {Merge(Merge(Merge(Merge(Merge(Merge(BaseJson, s), d), e), c), f), o) :
        s \in StatusOptions, d \in DocumentOptions, e \in ExceptionOptions,
        c \in ComplianceOptions, f \in FundingOptions, o \in OptionalOptions}

\* the loan files that lack one required key
IncompleteJsons ==
    {Without(Merge(BaseJson, s), RequiredFields[i]) :
        s \in StatusOptions, i \in DOMAIN RequiredFields}

LoanJsons == CompleteJsons \cup IncompleteJsons

-----------------------------------------------------------------------------
(* The state before anything is read *)

InitCommon ==
    /\ loan_file = NoObject
    /\ result = NoObject
    /\ loan_context = NoObject
    /\ communication_needs = NoObject
    /\ init_record = NoObject
    /\ run_start = NoObject
    /\ committed = NoObject
    /\ run_no = 0
    /\ mods = 0
    /\ stage_state = NoObject
    /\ stage_input = NoObject
    /\ task_output = NoObject
    /\ dict_out = NoObject
    /\ reloaded = NoObject
    /\ batch_i = 0
    /\ results = <<>>
    /\ summary = NoObject
    /\ prev_output = NoObject
    /\ prev_now = 0
    /\ fee_table = NoObject

\* no batch is run
NoBatch ==
    /\ loan_files = <<>>
    /\ processed = NoObject

\* no tool is called
NoTools ==
    /\ now = 0
    /\ tool_call = NoObject
    /\ tool_output = NoObject
    /\ tool_day = 0

-----------------------------------------------------------------------------
(* src/src/crew.py: LoanOperationsCrew *)

\* most calls of run() on one crew
MaxRuns == 2

\* most changes a client makes to the record it handed to the crew
MaxMods == 1

\* a crew whose last two tasks are listed the other way round
CrewTasksSwapped ==
    <<"document_tracking", "verification", "compliance_review",
      "exception_handling", "communication", "funding_preparation">>

\* Crew(tasks=[...], process=Process.sequential) of create_crew
CrewTasks ==
    <<"document_tracking", "verification", "compliance_review",
      "exception_handling", "funding_preparation", "communication">>

Stages == Range(CrewTasks)

Position(stage) == CHOOSE i \in DOMAIN CrewTasks : CrewTasks[i] = stage

\* tasks that are given their predecessor's output alone
TaskContextPredecessorOnly(stage) ==
    IF Position(stage) = 1 THEN {} ELSE {CrewTasks[Position(stage) - 1]}

\* task.context as _setup_tasks sets it: the tasks whose outputs the
\* task is given
TaskContext(stage) ==
    CASE stage = "document_tracking" -> {}
      [] stage = "verification" -> {"document_tracking"}
      [] stage = "compliance_review" -> {"document_tracking", "verification"}
      [] stage = "exception_handling" ->
            {"document_tracking", "verification", "compliance_review"}
      [] stage = "funding_preparation" ->
            {"verification", "compliance_review", "exception_handling"}
      [] stage = "communication" ->
            {"document_tracking", "exception_handling", "funding_preparation"}

\* [e for e in self.loan_file.exceptions if not e.resolved_date]
ActiveExceptions(lf) ==
    SeqFilter(lf.exceptions,
              {e \in Range(lf.exceptions) : ~Truthy(e.resolved_date)})

\* x or default
OrElse(x, default) == IF Truthy(x) THEN x ELSE default

\* _get_loan_context: the fields the context string is formatted from
get_loan_context(lf) ==
    [loan_id |-> lf.loan_id,
     borrower |-> lf.borrower_name,
     email |-> lf.borrower_email,
     phone |-> lf.borrower_phone,
     loan_type |-> lf.loan_type,
     loan_amount |-> lf.loan_amount,
     interest_rate |-> lf.interest_rate,
     term |-> lf.term_months,
     approval_date |-> lf.approval_date,
     approval_conditions |-> lf.approval_conditions,
     target_funding_date |-> OrElse(lf.target_funding_date, "TBD"),
     current_status |-> lf.funding_status,
     documents_status |->
        [n \in DOMAIN lf.documents |->
            [status |-> lf.documents[n].status,
             received_date |-> lf.documents[n].received_date]],
     active_exceptions |-> Len(ActiveExceptions(lf))]

\* _get_communication_needs: the documents a request is needed for (none:
\* no request line), the number of active exceptions (0: no notice line)
\* and the status update line that is always there
get_communication_needs(lf) ==
    [document_request |->
        SeqFilter(DocOrder,
                  {n \in DOMAIN lf.documents :
                      lf.documents[n].status \in {"pending", "expired"}}),
     exception_notices |-> Len(ActiveExceptions(lf)),
     status_update |-> TRUE]

\* the description of a task, an f-string over the context (and, for the
\* communication task, the needs) handed to create_*_task
TaskDescription(stage, context, needs) ==
    IF stage = "communication"
    THEN [stage |-> stage, loan_context |-> context,
          communication_needs |-> needs]
    ELSE [stage |-> stage, loan_context |-> context]

\* a run() that calls _setup_tasks again
RunLoanContextRebuilt(context, lf) == get_loan_context(lf)

\* the context the tasks of a run carry: run() calls create_crew and
\* kickoff on the tasks __init__ built, and does not call _setup_tasks
RunLoanContext(context, lf) == context

\* the needs the communication task of a run carries: as RunLoanContext
RunCommunicationNeeds(needs, lf) == needs

\* a stage that marks the record as it starts
RecordWhileRunningPartial(lf, stage) ==
    [lf EXCEPT !.funding_status =
        IF @ = "suspended" THEN "exception_handling" ELSE "suspended"]

\* the record while a stage is at work: run() hands the crew no LoanFile,
\* and the tools take and return strings
RecordWhileRunning(lf, stage) == lf

\* a stage whose critical output suspends the loan
RecordAfterStageSuspending(lf, stage, output) ==
    IF output.critical THEN [lf EXCEPT !.funding_status = "suspended"] ELSE lf

\* the record once a stage has completed: the stage's output is kept in
\* the task, nothing is written to self.loan_file
RecordAfterStage(lf, stage, output) == lf

\* the stages whose agent holds the exception_analyzer tool, the only
\* source of a severity
SeverityStages == {"exception_handling"}

NoOutput(stage) == [stage |-> stage, run |-> 0, critical |-> FALSE]

\* the failures of the LLM call behind a stage
LLMFailures == {"APIError", "Timeout"}

-----------------------------------------------------------------------------
(* src/main.py: process_single_loan, with the steps of LoanOperationsCrew  *)
(* inside it, and a client that keeps the crew and calls run() again       *)

LoanPath == "sample_loans/LOAN001.json"

\* a selection of loan files: every funding status tag, every missing
\* required key, every document and exception entry, the unread keys
PipelineJsons ==
    {Merge(BaseJson, s) : s \in StatusOptions} \cup
    {Without(BaseJson, RequiredFields[i]) : i \in DOMAIN RequiredFields} \cup
    {Merge(BaseJson, d) : d \in DocumentOptions} \cup
    {Merge(BaseJson, e) : e \in ExceptionOptions} \cup
    {Merge(Merge(BaseJson, s), f) :
        s \in {[funding_status |-> t] :
                  t \in {"approved", "ready_to_fund", "suspended"}},
        f \in FundingOptions}

\* an except clause that reports the loan as processed
ErrorResultAsSuccess(path, e) ==
    [loan_id |-> path, status |-> "success", error |-> e]

\* the dict of the except clause of process_single_loan
ErrorResult(path, e) == [loan_id |-> path, status |-> "error", error |-> e]

\* the dict process_single_loan returns after crew.run()
SuccessResult(lf, output) ==
    [loan_id |-> lf.loan_id, status |-> "success", result |-> output]

Init ==
    /\ json_file \in PipelineJsons
    /\ pc = "start"
    /\ InitCommon
    /\ NoBatch
    /\ NoTools

\* process_single_loan up to the construction of the crew:
\* LoanFile.from_json(loan_path), or the except clause
Load ==
    /\ pc = "start"
    /\ LET loaded == from_json(json_file)
       IN  IF loaded.ok
           THEN /\ loan_file' = loaded.value
                /\ pc' = "loaded"
                /\ result' = result
           ELSE /\ loan_file' = loan_file
                /\ pc' = "error"
                /\ result' = ErrorResult(LoanPath, loaded.error)
    /\ UNCHANGED <<json_file, pipeline_vars, roundtrip_vars, batch_vars,
                   tool_vars>>

\* LoanOperationsCrew(loan_file): _setup_agents, where get_llm raises
\* ValueError when no API key is configured, then _setup_tasks
Construct ==
    /\ pc = "loaded"
    /\ \E api_key \in BOOLEAN :
        IF api_key
        THEN /\ pc' = "idle"
             /\ loan_context' = get_loan_context(loan_file)
             /\ communication_needs' = get_communication_needs(loan_file)
             /\ init_record' = loan_file
             /\ stage_state' = [s \in Stages |-> "pending"]
             /\ stage_input' = [s \in Stages |-> NoObject]
             /\ task_output' = [s \in Stages |-> NoOutput(s)]
             /\ result' = result
        ELSE /\ pc' = "error"
             /\ result' = ErrorResult(LoanPath,
                              [exc |-> "ValueError", arg |-> "no API key"])
             /\ UNCHANGED <<loan_context, communication_needs, init_record,
                            stage_state, stage_input, task_output,
                   tool_vars>>
    /\ UNCHANGED <<json_file, loan_file, run_start, committed, run_no, mods,
                   roundtrip_vars, batch_vars,
                   tool_vars>>

\* a change a client makes to the LoanFile it handed to the crew
ChangedRecord(lf, change) ==
    CASE change = "status" ->
            [lf EXCEPT !.funding_status =
                IF @ = "verification" THEN "document_collection"
                ELSE "verification"]
      [] change = "document" ->
            [lf EXCEPT !.documents =
                Merge(@, [bank_statements |->
                            Document("bank_statements", "pending", None,
                                     None)])]
      [] change = "exception" ->
            [lf EXCEPT !.exceptions =
                Append(@, ExceptionEntry("EXC-9", "funding", "wire hold",
                                         "high", "2024-01-20", None, None))]

\* the client changes the record between runs
Modify ==
    /\ pc \in {"idle", "completed"}
    /\ mods < MaxMods
    /\ \E change \in {"status", "document", "exception"} :
        loan_file' = ChangedRecord(loan_file, change)
    /\ mods' = mods + 1
    /\ pc' = "idle"
    /\ UNCHANGED <<json_file, result, loan_context, communication_needs,
                   init_record, run_start, committed, run_no, stage_state,
                   stage_input, task_output, roundtrip_vars, batch_vars,
                   tool_vars>>

\* run(): create_crew() and the start of kickoff()
StartRun ==
    /\ pc \in {"idle", "completed"}
    /\ run_no < MaxRuns
    /\ pc' = "running"
    /\ run_no' = run_no + 1
    /\ loan_context' = RunLoanContext(loan_context, loan_file)
    /\ communication_needs' =
           RunCommunicationNeeds(communication_needs, loan_file)
    /\ stage_state' = [s \in Stages |-> "pending"]
    /\ stage_input' = [s \in Stages |-> NoObject]
    /\ run_start' = loan_file
    /\ committed' = loan_file
    /\ UNCHANGED <<json_file, loan_file, result, init_record, mods,
                   task_output, roundtrip_vars, batch_vars,
                   tool_vars>>

\* the task the sequential process executes next: the first of the crew's
\* tasks that is not done
NextTask ==
    LET done == {i \in DOMAIN CrewTasks : stage_state[CrewTasks[i]] = "done"}
    IN  CrewTasks[Cardinality(done) + 1]

AllDone == \A s \in Stages : stage_state[s] = "done"

NoneRunning == \A s \in Stages : stage_state[s] # "running"

\* the sequential process starts the next task: the agent is given the
\* task's description and the outputs of the tasks in task.context
StartStage(s) ==
    /\ pc = "running"
    /\ NoneRunning
    /\ ~AllDone
    /\ s = NextTask
    /\ stage_state' = [stage_state EXCEPT ![s] = "running"]
    /\ stage_input' =
          [stage_input EXCEPT ![s] =
              [description |->
                  TaskDescription(s, loan_context, communication_needs),
               context |-> {task_output[t] : t \in TaskContext(s)}]]
    /\ loan_file' = RecordWhileRunning(loan_file, s)
    /\ UNCHANGED <<json_file, pc, result, loan_context, communication_needs,
                   init_record, run_start, committed, run_no, mods,
                   task_output, roundtrip_vars, batch_vars,
                   tool_vars>>

\* the running task completes and its output is stored in the task
FinishStage(s) ==
    /\ pc = "running"
    /\ stage_state[s] = "running"
    /\ \E critical \in (IF s \in SeverityStages THEN BOOLEAN ELSE {FALSE}) :
        LET output == [stage |-> s, run |-> run_no, critical |-> critical]
        IN  /\ task_output' = [task_output EXCEPT ![s] = output]
            /\ loan_file' = RecordAfterStage(loan_file, s, output)
    /\ committed' = loan_file'
    /\ stage_state' = [stage_state EXCEPT ![s] = "done"]
    /\ UNCHANGED <<json_file, pc, result, loan_context, communication_needs,
                   init_record, run_start, run_no, mods, stage_input,
                   roundtrip_vars, batch_vars,
                   tool_vars>>

\* the LLM call of the running task fails or times out: nothing in run()
\* or the tasks catches it, so kickoff() raises into the except clause of
\* process_single_loan
StageFails(s) ==
    /\ pc = "running"
    /\ stage_state[s] = "running"
    /\ \E failure \in LLMFailures :
        result' = ErrorResult(LoanPath, [exc |-> failure, arg |-> s])
    /\ stage_state' = [stage_state EXCEPT ![s] = "failed"]
    /\ pc' = "error"
    /\ UNCHANGED <<json_file, loan_file, loan_context, communication_needs,
                   init_record, run_start, committed, run_no, mods,
                   stage_input, task_output, roundtrip_vars, batch_vars,
                   tool_vars>>

\* kickoff() returns the last task's output; process_single_loan writes
\* the report and returns the success dict
ReturnSuccess ==
    /\ pc = "running"
    /\ AllDone
    /\ pc' = "completed"
    /\ result' = SuccessResult(loan_file, task_output[CrewTasks[Len(CrewTasks)]])
    /\ UNCHANGED <<json_file, loan_file, pipeline_vars, roundtrip_vars,
                   batch_vars,
                   tool_vars>>

\* the run is interrupted (KeyboardInterrupt is no Exception: the except
\* clause does not catch it), between two stages or in the middle of one
Cancel ==
    /\ pc = "running"
    /\ pc' = "cancelled"
    /\ UNCHANGED <<json_file, loan_file, result, pipeline_vars,
                   roundtrip_vars, batch_vars,
                   tool_vars>>

Next ==
    \/ Load
    \/ Construct
    \/ Modify
    \/ StartRun
    \/ \E s \in Stages : StartStage(s)
    \/ \E s \in Stages : FinishStage(s)
    \/ \E s \in Stages : StageFails(s)
    \/ ReturnSuccess
    \/ Cancel

Spec == Init /\ [][Next]_vars

-----------------------------------------------------------------------------
(* Properties of the pipeline *)

\* the stages of the current run that have started
Started == {s \in DOMAIN stage_state : stage_state[s] # "pending"}

HasResult == "status" \in DOMAIN result

\* the order of the stages as the specification gives it
StageOrder ==
    <<"document_tracking", "verification", "compliance_review",
      "exception_handling", "funding_preparation", "communication">>

OrderIndex(stage) == CHOOSE i \in DOMAIN StageOrder : StageOrder[i] = stage

\* the stages that come before stage in the specification's order
Earlier(stage) ==
    {StageOrder[i] : i \in 1..(OrderIndex(stage) - 1)}

\* some stage of the current run produced a critical-severity exception
CriticalProduced ==
    \E s \in DOMAIN task_output :
        task_output[s].run = run_no /\ task_output[s].critical

\* C1 as stated: when all six stages have completed, the status has been
\* advanced to the state of the last completed stage (ready to fund or
\* later), or to suspended when a stage produced a critical exception.
C1_StatusAdvanced ==
    pc = "completed" =>
        IF CriticalProduced
        THEN loan_file.funding_status = "suspended"
        ELSE loan_file.funding_status \in {"ready_to_fund", "funded"}

\* C1, amended: when all six stages of a run have completed, the status
\* of the record is the status it had when the run started, whatever the
\* stages produced, a critical exception included.
C1_StatusUnchangedByRun ==
    pc = "completed" =>
        loan_file.funding_status = run_start.funding_status

C1_Witness ==
    /\ pc = "completed"
    /\ CriticalProduced
    /\ loan_file.funding_status = "approved"

\* C2 as stated: the context a stage receives holds the output of every
\* stage that ran earlier in the same run.
C2_ContextHoldsAllEarlier ==
    \A s \in Started :
        Earlier(s) \subseteq {o.stage : o \in stage_input[s].context}

\* C2, amended: the context a stage receives holds only outputs of stages
\* that completed earlier in the same run, always that of its immediate
\* predecessor, and every earlier stage's for verification, compliance
\* review and exception handling; funding preparation is not given the
\* document tracking output, and communication is given neither the
\* verification nor the compliance output.
C2_ContextAsWired ==
    \A s \in Started :
        LET given == {o.stage : o \in stage_input[s].context}
        IN  /\ \A o \in stage_input[s].context : o.run = run_no
            /\ given \subseteq Earlier(s)
            /\ OrderIndex(s) > 1 => StageOrder[OrderIndex(s) - 1] \in given
            /\ OrderIndex(s) <= 4 => given = Earlier(s)
            /\ s = "funding_preparation" =>
                  given = Earlier(s) \ {"document_tracking"}
            /\ s = "communication" =>
                  given = Earlier(s) \ {"verification", "compliance_review"}

C2_Witness ==
    /\ pc = "completed"
    /\ run_no = 2
    /\ "document_tracking" \notin
          {o.stage : o \in stage_input["funding_preparation"].context}

\* C3: the six stages run one after another in the fixed order: a stage
\* has started only if every stage before it has completed, and at most
\* one stage is running.
C3_StagesInOrder ==
    /\ \A s \in Started : \A t \in Earlier(s) : stage_state[t] = "done"
    /\ Cardinality({s \in DOMAIN stage_state :
                       stage_state[s] = "running"}) <= 1

C3_Witness ==
    /\ pc = "running"
    /\ stage_state["communication"] = "running"

\* C4 as stated: the stages of a run see the record's contents at the
\* time of the run.
C4_StagesSeeCurrentRecord ==
    \A s \in Started :
        stage_input[s].description =
            TaskDescription(s, get_loan_context(run_start),
                            get_communication_needs(run_start))

\* C4, amended: the stages of every run of an orchestrator see the
\* record's contents as they were when the orchestrator was constructed;
\* a change made to the record after the construction or after a previous
\* run is not seen.
C4_StagesSeeConstructionSnapshot ==
    \A s \in Started :
        stage_input[s].description =
            TaskDescription(s, get_loan_context(init_record),
                            get_communication_needs(init_record))

C4_Witness ==
    /\ pc = "completed"
    /\ run_no = 2
    /\ get_loan_context(run_start) # get_loan_context(init_record)
    /\ get_communication_needs(run_start) #
          get_communication_needs(init_record)

\* C5 as stated: when the LLM call of a stage fails or times out, the
\* loan's processing result is never an error.
C5_LLMFailureFallsBack ==
    \A s \in Started :
        stage_state[s] = "failed" => ~(HasResult /\ result.status = "error")

\* C5, amended: when the LLM call of a stage fails or times out, the
\* failure is raised out of the run, no later stage is run, and the
\* loan's processing result is an error carrying the failure.
C5_LLMFailureIsAnError ==
    \A s \in Started :
        stage_state[s] = "failed" =>
            /\ pc = "error"
            /\ HasResult
            /\ result.status = "error"
            /\ result.error.exc \in {"APIError", "Timeout"}
            /\ result.error.arg = s
            /\ \A t \in Stages : s \in Earlier(t) => stage_state[t] = "pending"

C5_Witness ==
    /\ pc = "error"
    /\ "compliance_review" \in Started
    /\ stage_state["compliance_review"] = "failed"
    /\ result.error.exc = "Timeout"

\* the required keys the claim names
C7_RequiredKeys ==
    {"loan_id", "borrower_name", "borrower_email", "loan_type",
     "loan_amount", "interest_rate", "term_months", "approval_date"}

\* the status tags of a loan file that are outside their enumeration
C7_BadTags(data) ==
    LET docs == Get(data, "documents", NoObject)
        bad_docs == {n \in DOMAIN docs :
                        /\ "status" \in DOMAIN docs[n]
                        /\ docs[n].status \notin
                              {"pending", "received", "verified", "rejected",
                               "expired"}}
        bad_status == "funding_status" \in DOMAIN data
                      /\ data.funding_status \notin
                            {"approved", "document_collection",
                             "verification", "compliance_review",
                             "exception_handling", "ready_to_fund", "funded",
                             "suspended"}
    IN  (IF bad_status THEN {data.funding_status} ELSE {})
        \cup {docs[n].status : n \in bad_docs}

\* C7: a loan file that lacks a required key or carries a status tag
\* outside its enumeration fails to load: the result is an error that
\* names the key or the tag, and no stage is run for the loan.
C7_BadInputFailsLoad ==
    (pc # "start" /\ (C7_RequiredKeys \ DOMAIN json_file # {}
                      \/ C7_BadTags(json_file) # {})) =>
        /\ pc = "error"
        /\ loan_file = NoObject
        /\ HasResult
        /\ result.status = "error"
        /\ result.loan_id = LoanPath
        /\ \/ /\ result.error.exc = "KeyError"
              /\ result.error.arg \in C7_RequiredKeys \ DOMAIN json_file
           \/ /\ result.error.exc = "ValueError"
              /\ result.error.arg \in C7_BadTags(json_file)
        /\ run_no = 0
        /\ Started = {}

C7_Witness ==
    /\ pc = "error"
    /\ result.error = [exc |-> "ValueError", arg |-> "bogus"]
    /\ "funding_status" \in DOMAIN json_file

\* some funding field of the record is populated
FundingPopulated(lf) ==
    \/ lf.funding_amount # None
    \/ lf.funding_method # None
    \/ lf.disbursement_account # None
    \/ lf.actual_funding_date # None

\* C9: whenever a record exists, after loading and after any number of
\* runs, its funding fields are populated only if its status is
\* ready_to_fund or funded.
C9_FundingFieldsOnlyWhenReady ==
    loan_file # NoObject =>
        (FundingPopulated(loan_file) =>
            loan_file.funding_status \in {"ready_to_fund", "funded"})

C9_Witness ==
    /\ pc = "completed"
    /\ run_no = 2
    /\ "actual_funding_date" \in DOMAIN json_file
    /\ loan_file.funding_status = "approved"
    /\ ~FundingPopulated(loan_file)

\* C10: when a run is cancelled, between stages or in the middle of one,
\* the record equals the record as it stood when the last fully completed
\* stage was applied.
C10_CancelLeavesNoPartialOutput ==
    pc = "cancelled" => loan_file = committed

C10_Witness ==
    /\ pc = "cancelled"
    /\ stage_state["verification"] = "done"
    /\ stage_state["compliance_review"] = "running"

-----------------------------------------------------------------------------
(* Serializing a loaded LoanFile and loading it back:                      *)
(* from_json, then to_dict, then from_json of what to_dict wrote           *)

RoundTripInit ==
    /\ json_file \in LoanJsons
    /\ pc = "start"
    /\ InitCommon
    /\ NoBatch
    /\ NoTools

\* LoanFile.from_json(path)
RtLoad ==
    /\ pc = "start"
    /\ LET loaded == from_json(json_file)
       IN  IF loaded.ok
           THEN /\ loan_file' = loaded.value
                /\ pc' = "loaded"
           ELSE /\ loan_file' = loan_file
                /\ pc' = "load_failed"
    /\ UNCHANGED <<json_file, result, pipeline_vars, roundtrip_vars, batch_vars,
                   tool_vars>>

\* loan_file.to_dict(), written out as JSON
RtSerialize ==
    /\ pc = "loaded"
    /\ dict_out' = to_dict(loan_file)
    /\ pc' = "serialized"
    /\ UNCHANGED <<json_file, loan_file, result, pipeline_vars, reloaded,
                   batch_vars,
                   tool_vars>>

\* LoanFile.from_json of the file to_dict's output was written to
RtReload ==
    /\ pc = "serialized"
    /\ LET loaded == from_json(dict_out)
       IN  IF loaded.ok
           THEN /\ reloaded' = loaded.value
                /\ pc' = "reloaded"
           ELSE /\ reloaded' = reloaded
                /\ pc' = "reload_failed"
    /\ UNCHANGED <<json_file, loan_file, result, pipeline_vars, dict_out,
                   batch_vars,
                   tool_vars>>

RoundTripNext == RtLoad \/ RtSerialize \/ RtReload

RoundTripSpec == RoundTripInit /\ [][RoundTripNext]_vars

\* C8: serializing a LoanRecord with to_dict and loading the result with
\* from_json yields an equivalent record: the same documents, compliance
\* checks and exceptions, with every timestamp and every exception
\* resolution preserved verbatim.
C8_RoundTripEquivalent ==
    pc = "reloaded" =>
        /\ reloaded.documents = loan_file.documents
        /\ reloaded.compliance_checks = loan_file.compliance_checks
        /\ reloaded.exceptions = loan_file.exceptions

-----------------------------------------------------------------------------
(* src/main.py: main, processing every loan file of the directory *)

\* most loan files in the directory
MaxFiles == 2

\* the paths list_loan_files returns, in the order of the glob
Paths ==
    <<"sample_loans/LOAN001.json", "sample_loans/LOAN002.json",
      "sample_loans/LOAN003.json", "sample_loans/LOAN004.json">>

\* the loan files of the directory: every funding status tag, every
\* missing required key, a document status outside the enumeration
BatchJsons ==
    {Merge(BaseJson, st) : st \in StatusOptions} \cup
    {Without(BaseJson, RequiredFields[i]) : i \in DOMAIN RequiredFields} \cup
    {Merge(BaseJson,
           [documents |-> [proof_of_income |-> [status |-> "bogus"]],
            funding_status |-> "verification"])}

\* how the crew of one loan fares: it runs to the end, get_llm finds no
\* API key, or the LLM call of a stage fails
CrewOutcomes ==
    {[kind |-> "ok", stage |-> "communication"],
     [kind |-> "no_api_key", stage |-> "document_tracking"]}
    \cup {[kind |-> k, stage |-> st] : k \in LLMFailures, st \in Stages}

\* the try block of process_single_loan: the success dict, or the
\* exception raised by from_json, the crew's constructor or run()
TryProcess(data, crew) ==
    LET loaded == from_json(data)
    IN  IF ~loaded.ok THEN loaded
        ELSE IF crew.kind = "no_api_key"
             THEN Raise("ValueError", "no API key")
        ELSE IF crew.kind \in LLMFailures
             THEN Raise(crew.kind, crew.stage)
        ELSE Return(SuccessResult(loaded.value,
                                  [stage |-> "communication", run |-> 1,
                                   critical |-> FALSE]))

\* an except clause that names KeyError alone
CatchesKeyErrorOnly(e) == e.exc = "KeyError"

\* except Exception: KeyError, ValueError and the failures of the LLM
\* call are all Exceptions
Catches(e) == TRUE

\* process_single_loan: the dict it returns, or the exception that
\* escapes it
process_single_loan(path, data, crew) ==
    LET tried == TryProcess(data, crew)
    IN  IF tried.ok THEN tried
        ELSE IF Catches(tried.error)
             THEN Return(ErrorResult(path, tried.error))
        ELSE tried

\* [r for r in results if r["status"] == status]
WithStatus(rs, status) ==
    SeqFilter(rs, {r \in Range(rs) : r.status = status})

BatchInit ==
    /\ json_file = NoObject
    /\ pc = "main"
    /\ InitCommon
    /\ NoTools
    /\ loan_files \in {SubSeq(Paths, 1, n) : n \in 0..MaxFiles}
    /\ processed = [p \in Range(loan_files) |-> 0]

\* main: no loan file is found, the hint is printed and main returns
NoLoanFiles ==
    /\ pc = "main"
    /\ loan_files = <<>>
    /\ pc' = "exit"
    /\ UNCHANGED <<json_file, loan_file, result, pipeline_vars,
                   roundtrip_vars, batch_vars,
                   tool_vars>>

\* one turn of the loop of main: process_single_loan on the next path and
\* results.append
ProcessNext ==
    /\ pc = "main"
    /\ batch_i < Len(loan_files)
    /\ LET path == loan_files[batch_i + 1]
       IN  /\ processed' = [processed EXCEPT ![path] = @ + 1]
           /\ \E data \in BatchJsons, crew \in CrewOutcomes :
               LET r == process_single_loan(path, data, crew)
               IN  IF r.ok
                   THEN /\ results' = Append(results, r.value)
                        /\ batch_i' = batch_i + 1
                        /\ pc' = pc
                   ELSE /\ pc' = "crashed"
                        /\ UNCHANGED <<results, batch_i>>
    /\ UNCHANGED <<json_file, loan_file, result, pipeline_vars,
                   roundtrip_vars, loan_files, summary,
                   tool_vars>>

\* main after the loop: the counts and the failed loans are printed
PrintSummary ==
    /\ pc = "main"
    /\ loan_files # <<>>
    /\ batch_i = Len(loan_files)
    /\ LET errors == WithStatus(results, "error")
       IN  summary' =
             [total |-> Len(results),
              successful |-> Len(WithStatus(results, "success")),
              errors |-> Len(errors),
              failed |-> [k \in 1..Len(errors) |->
                            [loan_id |-> errors[k].loan_id,
                             error |-> Get(errors[k], "error",
                                           [exc |-> "Unknown error",
                                            arg |-> ""])]]]
    /\ pc' = "exit"
    /\ UNCHANGED <<json_file, loan_file, result, pipeline_vars,
                   roundtrip_vars, loan_files, batch_i, results, processed,
                   tool_vars>>

BatchNext == NoLoanFiles \/ ProcessNext \/ PrintSummary

BatchSpec == BatchInit /\ [][BatchNext]_vars

\* C6: in a batch run no failure stops the batch, and at its end every
\* loan file found has been processed exactly once and has exactly one
\* result, a success or an error, in the order of the files; the
\* summary's successful and error counts add up to the number of files,
\* and the failed loans listed are exactly the error results, each with
\* its error.
C6_BatchProcessesEveryLoan ==
    /\ pc # "crashed"
    /\ (pc = "exit" /\ loan_files # <<>>) =>
        /\ \A p \in Range(loan_files) : processed[p] = 1
        /\ Len(results) = Len(loan_files)
        /\ \A k \in DOMAIN results :
              /\ results[k].status \in {"success", "error"}
              /\ results[k].status = "error" =>
                    /\ results[k].loan_id = loan_files[k]
                    /\ \E m \in DOMAIN summary.failed :
                          summary.failed[m] =
                              [loan_id |-> loan_files[k],
                               error |-> results[k].error]
        /\ summary.total = Len(loan_files)
        /\ summary.successful + summary.errors = Len(loan_files)
        /\ Len(summary.failed) = summary.errors
        /\ summary.errors =
              Cardinality({k \in DOMAIN results : results[k].status = "error"})

C6_Witness ==
    /\ pc = "exit"
    /\ Len(results) = 2
    /\ results[1].status = "error"
    /\ results[1].error.exc = "ValueError"
    /\ results[2].status = "success"
    /\ summary.errors = 1

-----------------------------------------------------------------------------
(* src/src/config/settings.py *)

\* REQUIRED_DOCUMENTS: the documents each loan type requires, in order
REQUIRED_DOCUMENTS ==
    [mortgage |-> <<"signed_application", "proof_of_income",
                    "bank_statements", "tax_returns", "property_appraisal",
                    "title_insurance", "homeowners_insurance",
                    "flood_certification">>,
     personal |-> <<"signed_application", "proof_of_income",
                    "bank_statements", "proof_of_identity">>,
     auto |-> <<"signed_application", "proof_of_income",
                "proof_of_insurance", "vehicle_title",
                "purchase_agreement">>,
     business |-> <<"signed_application", "business_tax_returns",
                    "financial_statements", "business_license",
                    "personal_guarantee", "collateral_documentation">>]

\* COMPLIANCE_CHECKS, in order
COMPLIANCE_CHECKS ==
    <<"anti_money_laundering", "know_your_customer", "truth_in_lending",
      "equal_credit_opportunity", "fair_lending", "flood_insurance",
      "privacy_disclosure">>

\* SLA_THRESHOLDS, in hours
SLA_THRESHOLDS ==
    [document_follow_up |-> 24, verification_completion |-> 48,
     compliance_review |-> 24, funding_preparation |-> 24,
     total_to_funding |-> 120]

\* EXCEPTION_CATEGORIES: the issue tags of each category
EXCEPTION_CATEGORIES ==
    [document |-> {"missing", "expired", "illegible", "incomplete"},
     compliance |-> {"failed_check", "pending_review", "requires_override"},
     verification |-> {"mismatch", "unable_to_verify", "fraud_flag"},
     funding |-> {"insufficient_funds", "wire_error", "hold_required"}]

-----------------------------------------------------------------------------
(* src/src/tools/ops_tools.py: DocumentCheckerTool *)

\* the loan types a tool is called with; "boat" is not a known type
LoanTypes == {"mortgage", "personal", "auto", "business", "boat"}

\* REQUIRED_DOCUMENTS.get(loan_type, REQUIRED_DOCUMENTS["personal"])
RequiredFor(loan_type) ==
    Get(REQUIRED_DOCUMENTS, loan_type, REQUIRED_DOCUMENTS["personal"])

\* the branch of the if/elif chain a required document falls in
DocClassWithoutPending(received, doc) ==
    IF doc \notin DOMAIN received THEN "missing"
    ELSE LET status == GetOpt(received[doc], "status")
         IN  CASE status = "expired" -> "expired"
               [] status = "received" -> "pending_verification"
               [] OTHER -> "none"

DocClass(received, doc) ==
    IF doc \notin DOMAIN received THEN "missing"
    ELSE LET status == GetOpt(received[doc], "status")
         IN  CASE status = "pending" -> "missing"
               [] status = "expired" -> "expired"
               [] status = "received" -> "pending_verification"
               [] OTHER -> "none"

\* the required documents of one class, in the order of the required list
DocsOfClass(required, received, class) ==
    SeqFilter(required,
              {d \in Range(required) : DocClass(received, d) = class})

CollectionCompleteNoExpired(missing, expired) == Len(missing) = 0

\* len(missing) == 0 and len(expired) == 0
CollectionComplete(missing, expired) == Len(missing) = 0 /\ Len(expired) = 0

\* DocumentCheckerTool._run
document_checker(loan_id, loan_type, received) ==
    LET required == RequiredFor(loan_type)
        missing == DocsOfClass(required, received, "missing")
        expired == DocsOfClass(required, received, "expired")
        pending == DocsOfClass(required, received, "pending_verification")
    IN  [loan_id |-> loan_id,
         loan_type |-> loan_type,
         total_required |-> Len(required),
         missing_documents |-> missing,
         expired_documents |-> expired,
         pending_verification |-> pending,
         collection_complete |-> CollectionComplete(missing, expired),
         sla_hours_remaining |-> SLA_THRESHOLDS["document_follow_up"],
         action_required |-> Len(missing) > 0 \/ Len(expired) > 0]

\* number of required documents whose status varies freely in a document map
MaxVaried == 2

\* what a document map holds for one name: nothing, or an entry with a status
DocEntries == {NoObject} \cup {[status |-> st] : st \in DocumentStatus}

\* a document that no loan type requires
ExtraDoc == "employment_letter"

\* the document maps a loan type is checked with: the first MaxVaried
\* required documents take any entry, the others share one (none, verified
\* or received), and a document that is not required may be present
DocumentMaps(loan_type) ==
    LET required == RequiredFor(loan_type)
        k == IF MaxVaried < Len(required) THEN MaxVaried ELSE Len(required)
        entry(choice, rest, d) ==
            IF d = ExtraDoc THEN [status |-> "expired"]
            ELSE IF \E i \in 1..k : required[i] = d
                 THEN choice[CHOOSE i \in 1..k : required[i] = d]
                 ELSE rest
        present(choice, rest, extra) ==
            {d \in Range(required) : entry(choice, rest, d) # NoObject}
            \cup (IF extra THEN {ExtraDoc} ELSE {})
        choices ==
            {c \in [choice : [1..k -> DocEntries],
                    rest : {NoObject, [status |-> "verified"],
                            [status |-> "received"]},
                    extra : BOOLEAN] :
                c.extra => c.rest = [status |-> "verified"]}
    IN  {[d \in present(c.choice, c.rest, c.extra) |->
            entry(c.choice, c.rest, d)] : c \in choices}

-----------------------------------------------------------------------------
(* JSON values handed to the tools: true, false and null are the strings   *)
(* "true", "false" and None                                                *)

\* Python truthiness of a JSON boolean, null or string
JsonTruthy(v) == v \notin {"false", None, ""}

\* a or b
PyOr(a, b) == IF JsonTruthy(a) THEN a ELSE b

\* a and b
PyAnd(a, b) == IF JsonTruthy(a) THEN b ELSE a

\* a stated date: [day |-> n] is a date strptime parses, n days after the
\* day the tools are first called; [text |-> s] is a string it cannot parse
DateIsStated(d) == IF "text" \in DOMAIN d THEN d.text # "" ELSE TRUE

-----------------------------------------------------------------------------
(* src/src/tools/ops_tools.py: DocumentVerifierTool *)

\* the keys of the checks dict, in order
CheckOrder ==
    <<"document_present", "legible", "complete", "not_expired",
      "signatures_valid", "dates_consistent">>

\* the date-sensitive documents
DateSensitive == {"proof_of_income", "bank_statements"}

\* days after which a date-sensitive document is stale
FreshnessDays == 90

\* whether strptime raises on the stated date of the document
DateRaises(document_name, data) ==
    /\ document_name \in DateSensitive
    /\ "document_date" \in DOMAIN data
    /\ DateIsStated(data.document_date)
    /\ "day" \notin DOMAIN data.document_date

NotExpiredIgnoringClock(document_name, data, today) == "true"

\* checks["not_expired"] once the expiration block has run
NotExpired(document_name, data, today) ==
    IF /\ document_name \in DateSensitive
       /\ "document_date" \in DOMAIN data
       /\ DateIsStated(data.document_date)
       /\ (today - data.document_date.day) > FreshnessDays
    THEN "false" ELSE "true"

AllPassedButSignatures(checks) ==
    \A k \in DOMAIN checks \ {"signatures_valid"} : JsonTruthy(checks[k])

\* all(checks.values())
AllPassed(checks) == \A k \in DOMAIN checks : JsonTruthy(checks[k])

\* DocumentVerifierTool._run
document_verifier(document_name, data, today) ==
    IF DateRaises(document_name, data)
    THEN Raise("ValueError", data.document_date.text)
    ELSE
    LET checks ==
            [document_present |-> "true",
             legible |-> "true",
             complete |-> Get(data, "pages_complete", "true"),
             not_expired |-> NotExpired(document_name, data, today),
             signatures_valid |-> Get(data, "signed", "true"),
             dates_consistent |-> "true"]
        all_passed == AllPassed(checks)
        failed_checks ==
            SeqFilter(CheckOrder,
                      {k \in DOMAIN checks : ~JsonTruthy(checks[k])})
    IN  Return([document_name |-> document_name,
                verification_passed |-> all_passed,
                verification_date |-> today,
                checks_performed |-> checks,
                failed_checks |-> failed_checks,
                recommendation |->
                    IF all_passed THEN "VERIFIED" ELSE "REQUIRES_ATTENTION",
                notes |-> [verified |-> all_passed,
                           failed |-> failed_checks]])

-----------------------------------------------------------------------------
(* src/src/tools/ops_tools.py: ComplianceValidatorTool *)

FloodPassedRequiringBoth(data) ==
    PyAnd(Get(data, "flood_cert_clear", "true"),
          Get(data, "flood_insurance_obtained", "false"))

\* data.get("flood_cert_clear", True) or
\* data.get("flood_insurance_obtained", False)
FloodPassed(data) ==
    PyOr(Get(data, "flood_cert_clear", "true"),
         Get(data, "flood_insurance_obtained", "false"))

ComplianceFlagSwapped(check) ==
    CASE check = "anti_money_laundering" -> "kyc_verified"
      [] check = "know_your_customer" -> "aml_cleared"
      [] check = "truth_in_lending" -> "tila_disclosed"

\* the flag of the loan data a flag-driven check reads
ComplianceFlag(check) ==
    CASE check = "anti_money_laundering" -> "aml_cleared"
      [] check = "know_your_customer" -> "kyc_verified"
      [] check = "truth_in_lending" -> "tila_disclosed"

\* the findings a flag-driven check reports when it fails
ComplianceFindings(check) ==
    CASE check = "anti_money_laundering" ->
            "AML flag detected - requires review"
      [] check = "know_your_customer" -> "KYC verification incomplete"
      [] check = "truth_in_lending" -> "TILA disclosure missing"

\* passed and findings of one check: the if/elif chain of the loop body
CheckOutcome(check, data) ==
    CASE check \in {"anti_money_laundering", "know_your_customer",
                    "truth_in_lending"} ->
            LET passed == Get(data, ComplianceFlag(check), "true")
            IN  [passed |-> passed,
                 findings |-> IF JsonTruthy(passed) THEN None
                              ELSE ComplianceFindings(check)]
      [] check = "equal_credit_opportunity" ->
            [passed |-> "true", findings |-> None]
      [] check = "fair_lending" ->
            [passed |-> "true", findings |-> None]
      [] check = "flood_insurance" ->
            IF GetOpt(data, "loan_type") = "mortgage"
            THEN LET passed == FloodPassed(data)
                 IN  [passed |-> passed,
                      findings |->
                        IF JsonTruthy(passed) THEN None
                        ELSE "Flood insurance required but not obtained"]
            ELSE [passed |-> "true", findings |-> "N/A - not a mortgage"]
      [] OTHER -> [passed |-> "true", findings |-> None]

FailedChecksUpToFirst(check_results) ==
    LET failed == SeqFilter(COMPLIANCE_CHECKS,
                            {k \in DOMAIN check_results :
                                ~JsonTruthy(check_results[k].passed)})
    IN  IF Len(failed) = 0 THEN failed ELSE <<failed[1]>>

\* [k for k, v in results.items() if not v["passed"]]
FailedChecks(check_results) ==
    SeqFilter(COMPLIANCE_CHECKS,
              {k \in DOMAIN check_results : ~JsonTruthy(check_results[k].passed)})

\* ComplianceValidatorTool._run
compliance_validator(loan_id, data, today) ==
    LET check_results ==
            [check \in Range(COMPLIANCE_CHECKS) |->
                LET outcome == CheckOutcome(check, data)
                IN  [check_name |-> check,
                     passed |-> outcome.passed,
                     findings |-> outcome.findings,
                     checked_date |-> today]]
        all_passed ==
            \A k \in DOMAIN check_results :
                JsonTruthy(check_results[k].passed)
        failed == FailedChecks(check_results)
    IN  [loan_id |-> loan_id,
         compliance_passed |-> all_passed,
         total_checks |-> Len(COMPLIANCE_CHECKS),
         passed_checks |-> Len(COMPLIANCE_CHECKS) - Len(failed),
         failed_checks |-> failed,
         results |-> check_results,
         recommendation |->
            IF all_passed THEN "CLEARED" ELSE "REQUIRES_REMEDIATION"]

-----------------------------------------------------------------------------
(* src/src/tools/ops_tools.py: ExceptionAnalyzerTool *)

\* the resolutions dict: resolution strategies by exception type and issue
Resolutions ==
    [document |->
        [missing |-> <<"Request document from borrower",
                       "Set follow-up reminder",
                       "Escalate if SLA breached">>,
         expired |-> <<"Request updated document",
                       "Verify if recent version exists">>,
         illegible |-> <<"Request clearer copy",
                         "Accept if key information readable">>,
         incomplete |-> <<"Request missing pages",
                          "Verify completeness requirements">>],
     compliance |->
        [failed_check |-> <<"Review findings", "Request remediation",
                            "Escalate to compliance officer">>,
         pending_review |-> <<"Expedite review",
                              "Provide additional documentation">>,
         requires_override |-> <<"Document justification",
                                 "Obtain management approval">>],
     verification |->
        [mismatch |-> <<"Investigate discrepancy",
                        "Request clarification from borrower">>,
         unable_to_verify |-> <<"Try alternate verification method",
                                "Request additional proof">>,
         fraud_flag |-> <<"Escalate immediately", "Suspend processing",
                          "Notify fraud team">>],
     funding |->
        [insufficient_funds |-> <<"Verify funding source",
                                  "Delay funding date">>,
         wire_error |-> <<"Verify wire instructions",
                          "Resubmit wire request">>,
         hold_required |-> <<"Identify hold reason",
                             "Resolve blocking issues">>]]

AvailableResolutionsByIssueOnly(exception_type, issue) ==
    IF \E t \in DOMAIN Resolutions : issue \in DOMAIN Resolutions[t]
    THEN LET t == CHOOSE t \in DOMAIN Resolutions :
                    issue \in DOMAIN Resolutions[t]
         IN  Resolutions[t][issue]
    ELSE <<"Escalate to supervisor">>

\* resolutions.get(exception_type, {}).get(issue, ["Escalate to supervisor"])
AvailableResolutions(exception_type, issue) ==
    Get(Get(Resolutions, exception_type, NoObject), issue,
        <<"Escalate to supervisor">>)

SeverityByIssueOnly(exception_type, issue) ==
    CASE issue = "fraud_flag" -> "critical"
      [] issue = "failed_check" -> "high"
      [] issue = "missing" -> "low"
      [] OTHER -> "medium"

\* the severity the if/elif chain assigns
Severity(exception_type, issue) ==
    CASE exception_type = "verification" /\ issue = "fraud_flag" -> "critical"
      [] exception_type = "compliance" /\ issue = "failed_check" -> "high"
      [] exception_type = "document" /\ issue = "missing" -> "low"
      [] OTHER -> "medium"

EscalationRequiredCriticalOnly(severity) == severity = "critical"

\* severity in ["high", "critical"]
EscalationRequired(severity) == severity \in {"high", "critical"}

RecommendedActionLast(available_resolutions) ==
    IF Len(available_resolutions) > 0
    THEN available_resolutions[Len(available_resolutions)]
    ELSE "Escalate"

\* available_resolutions[0] if available_resolutions else "Escalate"
RecommendedAction(available_resolutions) ==
    IF Len(available_resolutions) > 0 THEN available_resolutions[1]
    ELSE "Escalate"

\* ExceptionAnalyzerTool._run
exception_analyzer(exception_type, details) ==
    LET issue == Get(details, "issue", "unknown")
        available_resolutions == AvailableResolutions(exception_type, issue)
        severity == Severity(exception_type, issue)
    IN  [exception_type |-> exception_type,
         issue |-> issue,
         severity |-> severity,
         impact_assessment |->
            IF severity \in {"high", "critical"} THEN "Blocks funding"
            ELSE "May delay funding",
         proposed_resolutions |-> available_resolutions,
         recommended_action |-> RecommendedAction(available_resolutions),
         escalation_required |-> EscalationRequired(severity),
         sla_impact |-> severity # "low"]

-----------------------------------------------------------------------------
(* src/src/tools/ops_tools.py: FundingCalculatorTool                       *)
(*                                                                         *)
(* Money is counted in cents.  An amount that need not be a whole number   *)
(* of cents is [whole |-> w, part |-> n], standing for w + n / PartsPerCent *)
(* cents with 0 <= n < PartsPerCent.  A loan amount is a whole number of   *)
(* cents and an interest rate a whole number of hundredths of a percent.   *)

\* 365 days, percent and hundredths of a percent, over the 15 prepaid days:
\* amount * (rate / 100) / 365 * 15 = amount * hundredths * 3 / 730000
PartsPerCent == (365 * 100 * 100) \div 5

Cents(c) == [whole |-> c, part |-> 0]

\* a + b
MoneyAdd(a, b) ==
    [whole |-> a.whole + b.whole + ((a.part + b.part) \div PartsPerCent),
     part |-> (a.part + b.part) % PartsPerCent]

\* a - b
MoneySub(a, b) ==
    [whole |-> a.whole - b.whole + ((a.part - b.part) \div PartsPerCent),
     part |-> (a.part - b.part) % PartsPerCent]

\* a * k for a whole number k
MoneyTimes(a, k) ==
    [whole |-> a.whole * k + ((a.part * k) \div PartsPerCent),
     part |-> (a.part * k) % PartsPerCent]

\* loan_amount * permille / 1000
PerMille(loan_amount, permille) ==
    [whole |-> (loan_amount * permille) \div 1000,
     part |-> ((loan_amount * permille) % 1000) * (PartsPerCent \div 1000)]

RoundDown2(a) == a.whole

\* round(x, 2): the nearest whole number of cents, a tie going to the even one
Round2(a) ==
    IF 2 * a.part > PartsPerCent THEN a.whole + 1
    ELSE IF 2 * a.part = PartsPerCent /\ a.whole % 2 = 1 THEN a.whole + 1
    ELSE a.whole

\* the standard_fees dict literal for a loan amount
FreshStandardFees(loan_amount) ==
    [mortgage |->
        [origination_fee |-> PerMille(loan_amount, 10),
         appraisal_fee |-> Cents(50000),
         title_insurance |-> Cents(120000),
         recording_fee |-> Cents(15000)],
     personal |->
        [origination_fee |-> PerMille(loan_amount, 20),
         processing_fee |-> Cents(10000)],
     auto |->
        [origination_fee |-> PerMille(loan_amount, 15),
         documentation_fee |-> Cents(7500)],
     business |->
        [origination_fee |-> PerMille(loan_amount, 20),
         documentation_fee |-> Cents(50000),
         ucc_filing_fee |-> Cents(20000)]]

StandardFeesKept(kept, loan_amount) ==
    IF kept = NoObject THEN FreshStandardFees(loan_amount) ELSE kept

\* standard_fees as a call sees it: the dict literal is evaluated in every
\* call, whatever dict an earlier call built and updated
StandardFees(kept, loan_amount) == FreshStandardFees(loan_amount)

RECURSIVE SumFees(_, _)
\* sum(applicable_fees.values())
SumFees(fees, names) ==
    IF names = {} THEN Cents(0)
    ELSE LET n == CHOOSE n \in names : TRUE
         IN  MoneyAdd(fees[n], SumFees(fees, names \ {n}))

\* the key of standard_fees the call uses
FeeScheduleKey(loan_type) ==
    IF loan_type \in DOMAIN FreshStandardFees(0) THEN loan_type
    ELSE "personal"

\* daily_interest * prepaid_days
PrepaidInterest(loan_amount, rate_hundredths) ==
    LET per_part == [whole |-> loan_amount \div PartsPerCent,
                     part |-> loan_amount % PartsPerCent]
    IN  MoneyTimes(MoneyTimes(per_part, rate_hundredths), 3)

FundingMethodAtThreshold(loan_amount) ==
    IF loan_amount >= 50000 * 100 THEN "wire" ELSE "ach"

\* "wire" if loan_amount > 50000 else "ach"
FundingMethod(loan_amount) ==
    IF loan_amount > 50000 * 100 THEN "wire" ELSE "ach"

FeesAfterUpdateStandardWins(kept, loan_amount, loan_type, fee_data) ==
    LET standard_fees == StandardFees(kept, loan_amount)
        key == FeeScheduleKey(loan_type)
    IN  [standard_fees EXCEPT ![key] = Merge(fee_data, @)]

\* standard_fees once applicable_fees.update(fee_data) has run
FeesAfterUpdate(kept, loan_amount, loan_type, fee_data) ==
    LET standard_fees == StandardFees(kept, loan_amount)
        key == FeeScheduleKey(loan_type)
    IN  [standard_fees EXCEPT ![key] = Merge(@, fee_data)]

\* FundingCalculatorTool._run
funding_calculator(kept, loan_amount, interest_rate, loan_type, fee_data, today) ==
    LET applicable_fees ==
            FeesAfterUpdate(kept, loan_amount, loan_type,
                            fee_data)[FeeScheduleKey(loan_type)]
        total_fees == SumFees(applicable_fees, DOMAIN applicable_fees)
        net_disbursement == MoneySub(Cents(loan_amount), total_fees)
        prepaid_interest == PrepaidInterest(loan_amount, interest_rate)
    IN  [loan_amount |-> loan_amount,
         interest_rate |-> interest_rate,
         loan_type |-> loan_type,
         fee_breakdown |-> applicable_fees,
         total_fees |-> Round2(total_fees),
         prepaid_interest |-> Round2(prepaid_interest),
         net_disbursement |->
            Round2(MoneySub(net_disbursement, prepaid_interest)),
         funding_method |-> FundingMethod(loan_amount),
         estimated_funding_date |-> today + 2]

-----------------------------------------------------------------------------
(* src/src/tools/ops_tools.py: CommunicationDrafterTool                    *)
(*                                                                         *)
(* A drafted text is the template it comes from with the values formatted  *)
(* into it.  A context value that is formatted as a number is              *)
(* [num |-> cents] when it is a number and [text |-> s] when it is not.    *)

KnownCommunicationTypes ==
    {"document_request", "status_update", "funding_notice",
     "exception_notice"}

\* whether formatting a context value with :,.2f raises
FormatRaises(ctx, key) == key \in DOMAIN ctx /\ "num" \notin DOMAIN ctx[key]

\* the templates dict: every template is formatted, whatever the type
Templates(recipient_name, ctx) ==
    [document_request |->
        [template |-> "document_request", recipient |-> recipient_name,
         missing_documents |->
            Get(ctx, "missing_documents", <<"Required document">>)],
     status_update |->
        [template |-> "status_update", recipient |-> recipient_name,
         loan_id |-> Get(ctx, "loan_id", "N/A"),
         status |-> Get(ctx, "status", "In Progress"),
         next_steps |-> Get(ctx, "next_steps", ""),
         funding_date |-> Get(ctx, "funding_date", "")],
     funding_notice |->
        [template |-> "funding_notice", recipient |-> recipient_name,
         loan_id |-> Get(ctx, "loan_id", "N/A"),
         loan_amount |-> Get(ctx, "loan_amount", [num |-> 0]),
         net_disbursement |-> Get(ctx, "net_disbursement", [num |-> 0]),
         funding_method |-> Get(ctx, "funding_method", "Wire Transfer"),
         funding_date |-> Get(ctx, "funding_date", "Within 2 business days"),
         account_last4 |-> Get(ctx, "account_last4", "****")],
     exception_notice |->
        [template |-> "exception_notice", recipient |-> recipient_name,
         issue_description |->
            Get(ctx, "issue_description", "Additional information needed"),
         action_required |-> Get(ctx, "action_required", "Please contact us"),
         response_deadline |-> Get(ctx, "response_deadline", "48 hours")]]

SubjectOfStatusUpdate(communication_type, ctx) ==
    CASE communication_type = "document_request" ->
            <<"Action Required: Documents Needed for Loan #",
              Get(ctx, "loan_id", "")>>
      [] communication_type = "funding_notice" ->
            <<"Congratulations! Your Loan is Ready for Funding", "">>
      [] communication_type = "exception_notice" ->
            <<"Action Required: Issue with Your Loan Application", "">>
      [] OTHER -> <<"Loan Status Update - #", Get(ctx, "loan_id", "")>>

\* the subject dict and its default
Subject(communication_type, ctx) ==
    CASE communication_type = "document_request" ->
            <<"Action Required: Documents Needed for Loan #",
              Get(ctx, "loan_id", "")>>
      [] communication_type = "status_update" ->
            <<"Loan Status Update - #", Get(ctx, "loan_id", "")>>
      [] communication_type = "funding_notice" ->
            <<"Congratulations! Your Loan is Ready for Funding", "">>
      [] communication_type = "exception_notice" ->
            <<"Action Required: Issue with Your Loan Application", "">>
      [] OTHER -> <<"Loan Update", "">>

\* CommunicationDrafterTool._run
communication_drafter(communication_type, recipient_name, ctx, today) ==
    IF FormatRaises(ctx, "loan_amount")
    THEN Raise("ValueError", "loan_amount")
    ELSE IF FormatRaises(ctx, "net_disbursement")
    THEN Raise("ValueError", "net_disbursement")
    ELSE
    LET templates == Templates(recipient_name, ctx)
        draft == Get(templates, communication_type, templates["status_update"])
    IN  Return([communication_type |-> communication_type,
                recipient |-> recipient_name,
                subject |-> Subject(communication_type, ctx),
                body |-> draft,
                priority |->
                    IF communication_type \in
                         {"document_request", "exception_notice"}
                    THEN "high" ELSE "normal",
                drafted_at |-> today])

-----------------------------------------------------------------------------
(* The tools as the agents call them while the stages run: any tool, with  *)
(* any arguments, in any order, on any day                                 *)

\* number of days the clock may advance while the tools are called
MaxTicks == 1

\* the loan file whose stages call the tools
ToolJson ==
    Merge(BaseJson,
          [documents |->
              [signed_application |-> [status |-> "pending"],
               proof_of_income |-> [status |-> "received",
                                    received_date |-> "2024-01-05"]],
           exceptions |->
              <<[id |-> "EXC-1", category |-> "document",
                 description |-> "pay stub missing", severity |-> "low",
                 created_date |-> "2024-01-10"]>>])

ToolLoanId == ToolJson["loan_id"]

\* the arguments the document checker is called with
CheckerCalls ==
    UNION {{[tool |-> "document_checker", loan_id |-> ToolLoanId,
             loan_type |-> t, documents_received |-> m] :
                m \in DocumentMaps(t)} : t \in LoanTypes}

\* nothing, or one key with one of the values
Optional(key, values) == {NoObject} \cup {(key :> v) : v \in values}

\* the arguments the document verifier is called with
VerifierCalls ==
    {[tool |-> "document_verifier", document_name |-> n,
      document_data |-> Merge(Merge(c, g), d)] :
        n \in {"signed_application", "proof_of_income", "bank_statements"},
        c \in Optional("pages_complete", {"false"}),
        g \in Optional("signed", {"true", "false", None}),
        d \in Optional("document_date",
                       {[day |-> 0 - 91], [day |-> 0 - 90], [day |-> 1],
                        [text |-> ""], [text |-> "last month"]})}

\* the arguments the compliance validator is called with
ComplianceCalls ==
    {[tool |-> "compliance_validator", loan_id |-> ToolLoanId,
      loan_data |-> d] :
        d \in {Merge(Merge(Merge(Merge(a, k), t), l), f) :
                a \in Optional("aml_cleared", {"true", "false"}),
                k \in Optional("kyc_verified", {"true", "false"}),
                t \in Optional("tila_disclosed", {"true", "false"}),
                l \in {[loan_type |-> "mortgage"],
                       [loan_type |-> "personal"]},
                f \in {Merge(c, i) :
                        c \in Optional("flood_cert_clear",
                                       {"true", "false"}),
                        i \in Optional("flood_insurance_obtained",
                                       {"true"})}}
               \cup {NoObject,
                     [aml_cleared |-> None],
                     [loan_type |-> "mortgage", flood_cert_clear |-> None],
                     [loan_type |-> "mortgage", flood_cert_clear |-> "false",
                      flood_insurance_obtained |-> "false"]}}

\* every issue tag of every category
IssueTags == UNION {EXCEPTION_CATEGORIES[c] : c \in DOMAIN EXCEPTION_CATEGORIES}

\* the arguments the exception analyzer is called with
AnalyzerCalls ==
    {[tool |-> "exception_analyzer", exception_type |-> c,
      exception_details |-> Merge(i, x)] :
        c \in DOMAIN EXCEPTION_CATEGORIES \cup {"servicing"},
        i \in Optional("issue", IssueTags \cup {"duplicate"}),
        x \in Optional("severity", {"low"})}

\* the arguments the funding calculator is called with
FundingCalls ==
    {[tool |-> "funding_calculator", loan_amount |-> 100000 * 100,
      interest_rate |-> 600, loan_type |-> t, fees |-> f] :
        t \in {"mortgage", "personal", "boat"},
        f \in Optional("processing_fee", {Cents(0)})}

\* the arguments the communication drafter is called with
CommunicationCalls ==
    {[tool |-> "communication_drafter", communication_type |-> t,
      recipient_name |-> ToolJson["borrower_name"], context |-> c] :
        t \in KnownCommunicationTypes \cup {"reminder"},
        c \in {NoObject,
               [loan_id |-> ToolLoanId, status |-> "verification",
                next_steps |-> "send pay stub"],
               [loan_id |-> ToolLoanId,
                missing_documents |-> <<"bank_statements">>],
               [loan_id |-> ToolLoanId, loan_amount |-> [num |-> 10000000],
                net_disbursement |-> [num |-> 9765342],
                funding_method |-> "wire"],
               [loan_amount |-> [text |-> "100k"]]}}

\* what a call returns on a given day, and standard_fees as it leaves it
ToolRun(call, today, kept) ==
    CASE call.tool = "document_checker" ->
            document_checker(call.loan_id, call.loan_type,
                             call.documents_received)
      [] call.tool = "document_verifier" ->
            document_verifier(call.document_name, call.document_data, today)
      [] call.tool = "compliance_validator" ->
            compliance_validator(call.loan_id, call.loan_data, today)
      [] call.tool = "exception_analyzer" ->
            exception_analyzer(call.exception_type, call.exception_details)
      [] call.tool = "funding_calculator" ->
            funding_calculator(kept, call.loan_amount, call.interest_rate,
                               call.loan_type, call.fees, today)
      [] call.tool = "communication_drafter" ->
            communication_drafter(call.communication_type,
                                  call.recipient_name, call.context, today)

\* the dict standard_fees is bound to when the call has returned
FeeTableAfter(call, kept) ==
    IF call.tool = "funding_calculator"
    THEN FeesAfterUpdate(kept, call.loan_amount, call.loan_type, call.fees)
    ELSE kept

RecordAfterToolApplied(lf, call, output) ==
    IF call.tool = "document_verifier" /\ output.ok
       /\ call.document_name \in DOMAIN lf.documents
    THEN IF output.value.recommendation = "VERIFIED"
         THEN [lf EXCEPT !.documents[call.document_name] =
                 [@ EXCEPT !.status = "verified",
                           !.verified_by = "document_verifier",
                           !.verified_date = "today"]]
         ELSE [lf EXCEPT !.exceptions =
                 Append(@, ExceptionEntry("EXC-V", "verification",
                                          call.document_name, "medium",
                                          "today", None, None))]
    ELSE lf

\* the record once a tool has returned: a tool holds no reference to the
\* LoanFile and its return value goes to the agent, so the record is as it was
RecordAfterTool(lf, call, output) == lf

ToolInit ==
    /\ json_file = ToolJson
    /\ pc = "tools"
    /\ loan_file = from_json(ToolJson).value
    /\ result = NoObject
    /\ loan_context = NoObject
    /\ communication_needs = NoObject
    /\ init_record = NoObject
    /\ run_start = NoObject
    /\ committed = NoObject
    /\ run_no = 0
    /\ mods = 0
    /\ stage_state = NoObject
    /\ stage_input = NoObject
    /\ task_output = NoObject
    /\ dict_out = NoObject
    /\ reloaded = NoObject
    /\ batch_i = 0
    /\ results = <<>>
    /\ summary = NoObject
    /\ NoBatch
    /\ now = 0
    /\ tool_call = NoObject
    /\ tool_output = NoObject
    /\ tool_day = 0
    /\ prev_output = NoObject
    /\ prev_now = 0
    /\ fee_table = NoObject

\* what is left alone when a tool is called
ToolFrame ==
    UNCHANGED <<json_file, pc, result, pipeline_vars, roundtrip_vars,
                batch_vars, now>>

\* no call is outstanding
Idle == pc = "tools" /\ tool_call = NoObject

\* an agent calls a tool with the given arguments
Invoke(call) ==
    /\ tool_call' = call
    /\ tool_output' = ToolRun(call, now, fee_table)
    /\ tool_day' = now
    /\ fee_table' = FeeTableAfter(call, fee_table)
    /\ loan_file' = RecordAfterTool(loan_file, call, tool_output')
    /\ prev_output' = NoObject
    /\ prev_now' = 0
    /\ ToolFrame

CallDocumentChecker == Idle /\ \E call \in CheckerCalls : Invoke(call)

CallDocumentVerifier == Idle /\ \E call \in VerifierCalls : Invoke(call)

CallComplianceValidator == Idle /\ \E call \in ComplianceCalls : Invoke(call)

CallExceptionAnalyzer == Idle /\ \E call \in AnalyzerCalls : Invoke(call)

CallFundingCalculator == Idle /\ \E call \in FundingCalls : Invoke(call)

CallCommunicationDrafter == Idle /\ \E call \in CommunicationCalls : Invoke(call)

\* the pipeline is run again: the call is made again with the same arguments
CallAgain ==
    /\ pc = "tools"
    /\ tool_call # NoObject
    /\ prev_output = NoObject
    /\ prev_output' = tool_output
    /\ prev_now' = tool_day
    /\ tool_output' = ToolRun(tool_call, now, fee_table)
    /\ tool_day' = now
    /\ fee_table' = FeeTableAfter(tool_call, fee_table)
    /\ loan_file' = RecordAfterTool(loan_file, tool_call, tool_output')
    /\ UNCHANGED tool_call
    /\ ToolFrame

\* the agent takes the output and goes on
TakeOutput ==
    /\ pc = "tools"
    /\ tool_call # NoObject
    /\ tool_call' = NoObject
    /\ tool_output' = NoObject
    /\ tool_day' = 0
    /\ prev_output' = NoObject
    /\ prev_now' = 0
    /\ UNCHANGED <<json_file, pc, loan_file, result, pipeline_vars,
                   roundtrip_vars, batch_vars, now, fee_table>>

\* midnight passes
Tick ==
    /\ pc = "tools"
    /\ now < MaxTicks
    /\ now' = now + 1
    /\ UNCHANGED <<json_file, pc, loan_file, result, pipeline_vars,
                   roundtrip_vars, batch_vars, tool_call, tool_output,
                   tool_day, prev_output, prev_now, fee_table>>

ToolNext ==
    \/ CallDocumentChecker
    \/ CallDocumentVerifier
    \/ CallComplianceValidator
    \/ CallExceptionAnalyzer
    \/ CallFundingCalculator
    \/ CallCommunicationDrafter
    \/ CallAgain
    \/ TakeOutput
    \/ Tick

ToolSpec == ToolInit /\ [][ToolNext]_vars

-----------------------------------------------------------------------------
(* Claims about the tools *)

\* a call was made and its output has not been taken yet
Called(tool) == tool_call # NoObject /\ tool_call.tool = tool

\* the call was made a second time with the same arguments
CalledAgain == tool_call # NoObject /\ prev_output # NoObject

\* an output without its evaluation timestamps
Timeless(call, output) ==
    CASE call.tool = "document_verifier" /\ output.ok ->
            [output EXCEPT !.value.verification_date = 0]
      [] call.tool = "compliance_validator" ->
            [output EXCEPT !.results =
                [k \in DOMAIN @ |-> [@[k] EXCEPT !.checked_date = 0]]]
      [] call.tool = "funding_calculator" ->
            [output EXCEPT !.estimated_funding_date = 0]
      [] call.tool = "communication_drafter" /\ output.ok ->
            [output EXCEPT !.value.drafted_at = 0]
      [] OTHER -> output

\* C11 as stated: a component called twice with the same arguments gives
\* the same output both times once the evaluation timestamps are ignored,
\* whenever the two calls are made.
C11_RerunIdentical ==
    CalledAgain =>
        Timeless(tool_call, prev_output) = Timeless(tool_call, tool_output)

\* C11 as amended: the output of every call is what the component computes
\* from the call's arguments and the day of the call alone, whatever calls
\* were made before; so a component called twice with the same arguments
\* gives the same output, timestamps ignored, when both calls are made on
\* the same day, and every component but the document verifier also when
\* they are made on different days.
C11_RerunIdenticalOnSameDay ==
    /\ tool_call # NoObject =>
            tool_output = ToolRun(tool_call, tool_day, NoObject)
    /\ (CalledAgain /\ prev_now = tool_day) =>
            Timeless(tool_call, prev_output) = Timeless(tool_call, tool_output)
    /\ (CalledAgain /\ tool_call.tool # "document_verifier") =>
            Timeless(tool_call, prev_output) = Timeless(tool_call, tool_output)

\* the funding calculator was called twice with fee overrides, on two days
C11_Witness ==
    /\ CalledAgain
    /\ tool_call.tool = "funding_calculator"
    /\ tool_call.fees # NoObject
    /\ prev_now < tool_day
    /\ prev_output.estimated_funding_date # tool_output.estimated_funding_date
    /\ fee_table # NoObject

\* the record as it was loaded, before any tool was called
LoadedRecord == from_json(ToolJson).value

\* the document verifier has returned a result for a document of the record
VerifierReturned ==
    /\ Called("document_verifier")
    /\ tool_output.ok
    /\ tool_call.document_name \in DOMAIN loan_file.documents

\* C12 as stated: once the document verifier has returned, a document it
\* recommends as VERIFIED has status verified with verifier and verification
\* date set, and a document it recommends as REQUIRES_ATTENTION keeps its
\* status while the record holds a new exception of category verification.
C12_ValidationResultApplied ==
    VerifierReturned =>
        LET name == tool_call.document_name
            doc == loan_file.documents[name]
        IN  IF tool_output.value.recommendation = "VERIFIED"
            THEN /\ doc.status = "verified"
                 /\ doc.verified_by # None
                 /\ doc.verified_date # None
            ELSE /\ doc.status = LoadedRecord.documents[name].status
                 /\ Len(loan_file.exceptions) > Len(LoadedRecord.exceptions)
                 /\ loan_file.exceptions[Len(loan_file.exceptions)].category
                        = "verification"

\* C12 as amended: the result of the document verifier is not applied to
\* the record: whether it recommends VERIFIED or REQUIRES_ATTENTION, every
\* document keeps its status, verifier and verification date, and no
\* exception is added.
C12_ValidationResultNotApplied ==
    VerifierReturned =>
        /\ loan_file.documents = LoadedRecord.documents
        /\ loan_file.exceptions = LoadedRecord.exceptions

\* a received document of the record was recommended as VERIFIED and is
\* still received, with no verifier
C12_Witness ==
    /\ VerifierReturned
    /\ tool_output.value.recommendation = "VERIFIED"
    /\ loan_file.documents[tool_call.document_name].status = "received"
    /\ loan_file.documents[tool_call.document_name].verified_by = None

\* the status the document map holds for a name; "absent" without an entry
StatusIn(received, doc) ==
    IF doc \in DOMAIN received THEN received[doc].status ELSE "absent"

\* C13: for every loan type and document map, the missing, expired and
\* pending_verification lists of the document checker are pairwise disjoint
\* subsets of the loan type's required documents; an absent or pending
\* document is missing, an expired one expired, a received one pending
\* verification, and the required documents in none of the lists are
\* exactly the verified and rejected ones.
C13_AuditListsPartitionRequired ==
    Called("document_checker") =>
        LET required == Range(Get(REQUIRED_DOCUMENTS, tool_call.loan_type,
                                  REQUIRED_DOCUMENTS["personal"]))
            received == tool_call.documents_received
            missing == Range(tool_output.missing_documents)
            expired == Range(tool_output.expired_documents)
            pending == Range(tool_output.pending_verification)
        IN  /\ missing \cup expired \cup pending \subseteq required
            /\ missing \cap expired = {}
            /\ missing \cap pending = {}
            /\ expired \cap pending = {}
            /\ Len(tool_output.missing_documents) = Cardinality(missing)
            /\ Len(tool_output.expired_documents) = Cardinality(expired)
            /\ Len(tool_output.pending_verification) = Cardinality(pending)
            /\ missing = {d \in required :
                            StatusIn(received, d) \in {"absent", "pending"}}
            /\ expired = {d \in required : StatusIn(received, d) = "expired"}
            /\ pending = {d \in required : StatusIn(received, d) = "received"}
            /\ required \ (missing \cup expired \cup pending) =
                    {d \in required :
                        StatusIn(received, d) \in {"verified", "rejected"}}

\* a mortgage with a pending and an expired document, the others verified,
\* and a document that is not required: two lists are filled and the
\* verified documents are in none
C13_Witness ==
    /\ Called("document_checker")
    /\ tool_call.loan_type = "mortgage"
    /\ ExtraDoc \in DOMAIN tool_call.documents_received
    /\ \E d \in DOMAIN tool_call.documents_received :
            tool_call.documents_received[d].status = "pending"
    /\ tool_output.missing_documents # <<>>
    /\ tool_output.expired_documents # <<>>
    /\ Len(tool_output.missing_documents)
         + Len(tool_output.expired_documents)
         + Len(tool_output.pending_verification) < tool_output.total_required

\* C14: for every document map, the document checker reports
\* collection_complete exactly when its missing list and its expired list are
\* both empty, that is when no required document is absent, pending or
\* expired; documents pending verification do not make it incomplete.
C14_CollectionCompleteIffNoneMissingOrExpired ==
    Called("document_checker") =>
        LET required == Range(Get(REQUIRED_DOCUMENTS, tool_call.loan_type,
                                  REQUIRED_DOCUMENTS["personal"]))
            received == tool_call.documents_received
        IN  /\ tool_output.collection_complete <=>
                    (/\ tool_output.missing_documents = <<>>
                     /\ tool_output.expired_documents = <<>>)
            /\ tool_output.collection_complete <=>
                    \A d \in required :
                        StatusIn(received, d) \in
                            {"received", "verified", "rejected"}

\* collection is complete although documents are pending verification
C14_Witness ==
    /\ Called("document_checker")
    /\ tool_output.collection_complete
    /\ tool_output.pending_verification # <<>>
    /\ tool_output.missing_documents = <<>>
    /\ tool_output.expired_documents = <<>>

\* a flag of the loan data holds: it is true, or absent with a default of true
FlagHolds(data, flag, default) ==
    IF flag \in DOMAIN data THEN data[flag] = "true" ELSE default

\* C15: each of the seven compliance checks passes as the predicate table
\* says: anti_money_laundering, know_your_customer and truth_in_lending pass
\* iff their flag is true or absent; equal_credit_opportunity, fair_lending
\* and privacy_disclosure always pass; flood_insurance passes for every loan
\* that is not a mortgage and for a mortgage iff flood_cert_clear (true when
\* absent) or flood_insurance_obtained holds; and every failed check carries
\* its documented findings.
C15_ChecksFollowPredicateTable ==
    Called("compliance_validator") =>
        LET data == tool_call.loan_data
            res == tool_output.results
            passes(c) == res[c].passed = "true"
            mortgage == "loan_type" \in DOMAIN data
                        /\ data.loan_type = "mortgage"
            table ==
                [anti_money_laundering |->
                    [passes |-> FlagHolds(data, "aml_cleared", TRUE),
                     findings |-> "AML flag detected - requires review"],
                 know_your_customer |->
                    [passes |-> FlagHolds(data, "kyc_verified", TRUE),
                     findings |-> "KYC verification incomplete"],
                 truth_in_lending |->
                    [passes |-> FlagHolds(data, "tila_disclosed", TRUE),
                     findings |-> "TILA disclosure missing"],
                 equal_credit_opportunity |->
                    [passes |-> TRUE, findings |-> None],
                 fair_lending |-> [passes |-> TRUE, findings |-> None],
                 flood_insurance |->
                    [passes |->
                        \/ ~mortgage
                        \/ FlagHolds(data, "flood_cert_clear", TRUE)
                        \/ FlagHolds(data, "flood_insurance_obtained", FALSE),
                     findings |-> "Flood insurance required but not obtained"],
                 privacy_disclosure |-> [passes |-> TRUE, findings |-> None]]
        IN  /\ DOMAIN res = DOMAIN table
            /\ \A c \in DOMAIN table :
                /\ res[c].check_name = c
                /\ passes(c) <=> table[c].passes
                /\ ~passes(c) => res[c].findings = table[c].findings

\* a mortgage whose AML flag is false and whose flood certificate is not
\* clear while flood insurance was obtained
C15_Witness ==
    /\ Called("compliance_validator")
    /\ "aml_cleared" \in DOMAIN tool_call.loan_data
    /\ tool_call.loan_data.aml_cleared = "false"
    /\ "flood_cert_clear" \in DOMAIN tool_call.loan_data
    /\ tool_call.loan_data.flood_cert_clear = "false"
    /\ "flood_insurance_obtained" \in DOMAIN tool_call.loan_data
    /\ tool_call.loan_data.loan_type = "mortgage"
    /\ tool_output.results["anti_money_laundering"].passed = "false"
    /\ tool_output.results["flood_insurance"].passed = "true"

\* C16: compliance_passed is true iff every individual check passed,
\* failed_checks lists exactly the checks that did not pass, each once, and
\* the recommendation is CLEARED iff compliance_passed and
\* REQUIRES_REMEDIATION otherwise.
C16_AggregateFollowsChecks ==
    Called("compliance_validator") =>
        LET res == tool_output.results
            not_passed == {c \in DOMAIN res : res[c].passed # "true"}
        IN  /\ tool_output.compliance_passed <=> not_passed = {}
            /\ Range(tool_output.failed_checks) = not_passed
            /\ Len(tool_output.failed_checks) = Cardinality(not_passed)
            /\ tool_output.passed_checks =
                    tool_output.total_checks - Cardinality(not_passed)
            /\ tool_output.recommendation =
                    IF tool_output.compliance_passed THEN "CLEARED"
                    ELSE "REQUIRES_REMEDIATION"

\* three checks failed at once
C16_Witness ==
    /\ Called("compliance_validator")
    /\ Len(tool_output.failed_checks) = 3
    /\ ~tool_output.compliance_passed
    /\ tool_output.recommendation = "REQUIRES_REMEDIATION"

\* the fully compliant mortgage
CompliantMortgage ==
    [aml_cleared |-> "true", kyc_verified |-> "true",
     tila_disclosed |-> "true", loan_type |-> "mortgage",
     flood_cert_clear |-> "true"]

\* C17: a fully compliant mortgage (all flags true, flood_cert_clear true)
\* passes with no failed check; with only aml_cleared changed to false it
\* fails with exactly one failed check, anti_money_laundering, whose
\* findings are "AML flag detected - requires review", and the results of
\* the other six checks are those of the compliant mortgage.
C17_AmlFlipFailsOneCheck ==
    /\ (Called("compliance_validator")
        /\ tool_call.loan_data = CompliantMortgage) =>
            /\ tool_output.compliance_passed
            /\ tool_output.failed_checks = <<>>
    /\ (Called("compliance_validator")
        /\ tool_call.loan_data =
                [CompliantMortgage EXCEPT !.aml_cleared = "false"]) =>
            LET compliant ==
                    compliance_validator(tool_call.loan_id,
                                         CompliantMortgage, tool_day)
            IN  /\ ~tool_output.compliance_passed
                /\ tool_output.failed_checks = <<"anti_money_laundering">>
                /\ tool_output.results["anti_money_laundering"].findings =
                        "AML flag detected - requires review"
                /\ \A c \in DOMAIN tool_output.results
                            \ {"anti_money_laundering"} :
                        /\ tool_output.results[c] = compliant.results[c]
                        /\ tool_output.results[c].passed = "true"

\* the compliant mortgage with aml_cleared false was validated
C17_Witness ==
    /\ Called("compliance_validator")
    /\ tool_call.loan_data =
            [CompliantMortgage EXCEPT !.aml_cleared = "false"]
    /\ tool_output.failed_checks = <<"anti_money_laundering">>

\* the issue tag of a call of the exception analyzer; "unknown" without one
IssueOf(call) ==
    IF "issue" \in DOMAIN call.exception_details
    THEN call.exception_details.issue ELSE "unknown"

\* C18: for every category and issue tag the severity is critical for
\* (verification, fraud_flag), high for (compliance, failed_check), low for
\* (document, missing) and medium for every other pair, also for an issue
\* tag paired with a category it does not belong to.
C18_SeverityLookup ==
    Called("exception_analyzer") =>
        LET pair == <<tool_call.exception_type, IssueOf(tool_call)>>
        IN  /\ pair = <<"verification", "fraud_flag">> =>
                    tool_output.severity = "critical"
            /\ pair = <<"compliance", "failed_check">> =>
                    tool_output.severity = "high"
            /\ pair = <<"document", "missing">> =>
                    tool_output.severity = "low"
            /\ pair \notin {<<"verification", "fraud_flag">>,
                            <<"compliance", "failed_check">>,
                            <<"document", "missing">>} =>
                    tool_output.severity = "medium"

\* fraud_flag under the category document is of medium severity
C18_Witness ==
    /\ Called("exception_analyzer")
    /\ tool_call.exception_type = "document"
    /\ IssueOf(tool_call) = "fraud_flag"
    /\ tool_output.severity = "medium"

\* C19: escalation_required is true iff the severity is high or critical,
\* sla_impact is true iff the severity is not low, and the impact statement
\* is "Blocks funding" iff the severity is high or critical and
\* "May delay funding" otherwise.
C19_EscalationAndImpactFollowSeverity ==
    Called("exception_analyzer") =>
        LET blocking == tool_output.severity \in {"high", "critical"}
        IN  /\ tool_output.severity \in {"low", "medium", "high", "critical"}
            /\ tool_output.escalation_required <=> blocking
            /\ tool_output.sla_impact <=> tool_output.severity # "low"
            /\ tool_output.impact_assessment =
                    IF blocking THEN "Blocks funding" ELSE "May delay funding"

\* an exception of high severity: escalated, blocking, with SLA impact
C19_Witness ==
    /\ Called("exception_analyzer")
    /\ tool_output.severity = "high"
    /\ tool_output.escalation_required
    /\ tool_output.sla_impact
    /\ tool_output.impact_assessment = "Blocks funding"

\* C20: for any category, known or not, and an issue tag that is absent or
\* not in the vocabulary of that category, the exception analyzer proposes
\* the single action "Escalate to supervisor", recommends it, and gives
\* severity medium.
C20_UnknownIssueFallsBack ==
    Called("exception_analyzer") =>
        LET vocabulary == Get(EXCEPTION_CATEGORIES, tool_call.exception_type,
                              {})
        IN  (\/ "issue" \notin DOMAIN tool_call.exception_details
             \/ tool_call.exception_details.issue \notin vocabulary) =>
                /\ tool_output.proposed_resolutions =
                        <<"Escalate to supervisor">>
                /\ tool_output.recommended_action = "Escalate to supervisor"
                /\ tool_output.severity = "medium"

\* an issue tag of another category's vocabulary fell back
C20_Witness ==
    /\ Called("exception_analyzer")
    /\ tool_call.exception_type = "funding"
    /\ "issue" \in DOMAIN tool_call.exception_details
    /\ tool_call.exception_details.issue = "missing"
    /\ tool_output.proposed_resolutions = <<"Escalate to supervisor">>

\* C21: for category verification and issue fraud_flag, whatever other keys
\* the exception details hold, the exception analyzer gives severity
\* critical and escalation_required true, and the first of its proposed
\* resolutions, which is its recommended action, is "Escalate immediately".
C21_FraudFlagEscalatesImmediately ==
    (/\ Called("exception_analyzer")
     /\ tool_call.exception_type = "verification"
     /\ IssueOf(tool_call) = "fraud_flag") =>
        /\ tool_output.severity = "critical"
        /\ tool_output.escalation_required
        /\ Len(tool_output.proposed_resolutions) > 0
        /\ tool_output.proposed_resolutions[1] = "Escalate immediately"
        /\ tool_output.recommended_action = "Escalate immediately"

\* a fraud flag whose details also give a severity of their own, low
C21_Witness ==
    /\ Called("exception_analyzer")
    /\ tool_call.exception_type = "verification"
    /\ IssueOf(tool_call) = "fraud_flag"
    /\ "severity" \in DOMAIN tool_call.exception_details
    /\ tool_call.exception_details.severity = "low"
    /\ tool_output.severity = "critical"
    /\ tool_output.recommended_action = "Escalate immediately"

-----------------------------------------------------------------------------
(* The funding calculator on its own: the funding stage calls it for loans *)
(* of any type, with amounts at and around the wire threshold and amounts  *)
(* whose fees and interest are not whole cents                             *)

\* loan amounts, in cents
FundingAmounts ==
    {100000 * 100, 50000 * 100, 50000 * 100 + 1, 25000 * 100 + 6}

\* annual interest rates, in hundredths of a percent
FundingRates == {450, 600, 725}

\* fee overrides: none, one that names a standard fee of the personal
\* schedule, and one that names no standard fee
FundingFeeOverrides ==
    Optional("processing_fee", {Cents(0)})
        \cup Optional("courier_fee", {Cents(2500)})

\* the arguments the funding calculator is called with
FundingInputs ==
    {[tool |-> "funding_calculator", loan_amount |-> a, interest_rate |-> r,
      loan_type |-> t, fees |-> f] :
        a \in FundingAmounts, r \in FundingRates, t \in LoanTypes,
        f \in FundingFeeOverrides}

CalculateFunding == Idle /\ \E call \in FundingInputs : Invoke(call)

FundingNext ==
    \/ CalculateFunding
    \/ TakeOutput

FundingSpec == ToolInit /\ [][FundingNext]_vars

\* amount * (rate / 100) / 365 * 15 by long division, in cents and parts
ExactPrepaid(amount, hundredths) ==
    LET q == amount \div PartsPerCent
        r == amount % PartsPerCent
    IN  [whole |-> q * hundredths * 3 + ((r * hundredths * 3) \div PartsPerCent),
         part |-> (r * hundredths * 3) % PartsPerCent]

\* n cents is the exact amount rounded to 2 decimal places
IsRounded(n, exact) ==
    \/ exact.whole = n /\ 2 * exact.part <= PartsPerCent
    \/ exact.whole = n - 1 /\ 2 * exact.part >= PartsPerCent

\* C22: for every amount, rate and loan type, net_disbursement is the amount
\* minus the total fees minus the prepaid interest, rounded to 2 decimal
\* places, where the prepaid interest is 15 times the daily interest
\* amount * (rate / 100) / 365; for amount 100000, rate 6.0 and type personal
\* the calculator reports total_fees 2100, prepaid_interest 246.58 and
\* net_disbursement 97653.42.
C22_NetDisbursementRounded ==
    Called("funding_calculator") =>
        LET amount == tool_call.loan_amount
            fees == tool_output.fee_breakdown
            total == SumFees(fees, DOMAIN fees)
            prepaid == ExactPrepaid(amount, tool_call.interest_rate)
        IN  /\ IsRounded(tool_output.net_disbursement,
                         MoneySub(MoneySub(Cents(amount), total), prepaid))
            /\ IsRounded(tool_output.prepaid_interest, prepaid)
            /\ (/\ amount = 100000 * 100
                /\ tool_call.interest_rate = 600
                /\ tool_call.loan_type = "personal"
                /\ tool_call.fees = NoObject) =>
                    /\ tool_output.total_fees = 2100 * 100
                    /\ tool_output.prepaid_interest = 24658
                    /\ tool_output.net_disbursement = 9765342

\* the personal loan of 100000 at 6.0 was calculated
C22_Witness ==
    /\ Called("funding_calculator")
    /\ tool_call.loan_amount = 100000 * 100
    /\ tool_call.interest_rate = 600
    /\ tool_call.loan_type = "personal"
    /\ tool_call.fees = NoObject
    /\ tool_output.net_disbursement = 9765342

\* C23: the fee breakdown is the standard schedule of the loan type (the
\* personal schedule for an unrecognized type) merged with the fee
\* overrides: an override named as a standard fee replaces that fee, an
\* override with a new name adds a fee, every standard fee that is not
\* overridden is charged, and total_fees is the sum of that breakdown.
C23_FeeBreakdownIsMerge ==
    Called("funding_calculator") =>
        LET schedules == FreshStandardFees(tool_call.loan_amount)
            standard ==
                IF tool_call.loan_type \in
                     {"mortgage", "personal", "auto", "business"}
                THEN schedules[tool_call.loan_type]
                ELSE schedules["personal"]
            overrides == tool_call.fees
            fees == tool_output.fee_breakdown
        IN  /\ DOMAIN fees = DOMAIN standard \cup DOMAIN overrides
            /\ \A n \in DOMAIN overrides : fees[n] = overrides[n]
            /\ \A n \in DOMAIN standard \ DOMAIN overrides :
                    fees[n] = standard[n]
            /\ IsRounded(tool_output.total_fees,
                         SumFees(fees, DOMAIN fees))

\* a loan of an unrecognized type whose processing fee is overridden to
\* zero, calculated after a mortgage: the origination fee of the personal
\* schedule is still charged
C23_Witness ==
    /\ Called("funding_calculator")
    /\ tool_call.loan_type = "boat"
    /\ tool_call.fees = [processing_fee |-> Cents(0)]
    /\ tool_output.fee_breakdown =
            [origination_fee |-> PerMille(tool_call.loan_amount, 20),
             processing_fee |-> Cents(0)]
    /\ tool_output.total_fees = Round2(PerMille(tool_call.loan_amount, 20))
    /\ fee_table # NoObject

\* C24: the funding method is wire iff the loan amount is strictly greater
\* than 50000 and ach otherwise, an amount of exactly 50000 giving ach,
\* whatever the loan type, the rate and the fees.
C24_WireIffAboveThreshold ==
    Called("funding_calculator") =>
        /\ tool_output.funding_method \in {"wire", "ach"}
        /\ tool_output.funding_method = "wire" <=>
                tool_call.loan_amount > 50000 * 100
        /\ \A other \in FundingInputs :
                other.loan_amount = tool_call.loan_amount =>
                    ToolRun(other, tool_day, fee_table).funding_method =
                        tool_output.funding_method

\* a mortgage of exactly 50000 is funded by ach
C24_Witness ==
    /\ Called("funding_calculator")
    /\ tool_call.loan_amount = 50000 * 100
    /\ tool_call.loan_type = "mortgage"
    /\ tool_output.funding_method = "ach"

\* C30: the reported figures are consistent to the cent: for every amount in
\* whole cents, rate, loan type and fee overrides, the reported
\* net_disbursement is the reported loan_amount minus the reported
\* total_fees minus the reported prepaid_interest.
C30_ReportedFiguresConsistent ==
    Called("funding_calculator") =>
        tool_output.net_disbursement =
            tool_output.loan_amount - tool_output.total_fees
                - tool_output.prepaid_interest

\* the communication drafter was called with a type that is none of the
\* four known types
UnknownTypeDrafted ==
    /\ Called("communication_drafter")
    /\ tool_call.communication_type \notin KnownCommunicationTypes

\* what the status_update type gives for the recipient and context of the
\* call, on the day of the call
AsStatusUpdate ==
    communication_drafter("status_update", tool_call.recipient_name,
                          tool_call.context, tool_day)

\* C25 as stated: for a communication type outside the four known types,
\* the subject and the body are those the status_update type produces for
\* the same recipient and context, and the priority is normal.
C25_UnknownTypeIsStatusUpdate ==
    (UnknownTypeDrafted /\ tool_output.ok) =>
        /\ AsStatusUpdate.ok
        /\ tool_output.value.subject = AsStatusUpdate.value.subject
        /\ tool_output.value.body = AsStatusUpdate.value.body
        /\ tool_output.value.priority = "normal"

\* C25 as amended: for a communication type outside the four known types,
\* the body is the one the status_update type produces for the same
\* recipient and context, the subject is the fixed text "Loan Update"
\* without the loan id, not the subject of the status_update type, and the
\* priority is normal; the call fails exactly when the status_update call
\* fails, with the same error.
C25_UnknownTypeBodyOnly ==
    UnknownTypeDrafted =>
        /\ tool_output.ok = AsStatusUpdate.ok
        /\ ~tool_output.ok => tool_output = AsStatusUpdate
        /\ tool_output.ok =>
            /\ tool_output.value.body = AsStatusUpdate.value.body
            /\ tool_output.value.body.template = "status_update"
            /\ tool_output.value.subject = <<"Loan Update", "">>
            /\ tool_output.value.subject # AsStatusUpdate.value.subject
            /\ tool_output.value.priority = "normal"
            /\ tool_output.value.communication_type =
                    tool_call.communication_type

\* a reminder was drafted for the loan: the body is the status update with
\* the loan's status and next steps, the subject does not name the loan
C25_Witness ==
    /\ UnknownTypeDrafted
    /\ tool_output.ok
    /\ "loan_id" \in DOMAIN tool_call.context
    /\ "status" \in DOMAIN tool_call.context
    /\ tool_output.value.body.status = tool_call.context.status
    /\ tool_output.value.subject = <<"Loan Update", "">>
    /\ AsStatusUpdate.value.subject = <<"Loan Status Update - #", ToolLoanId>>

\* the document verifier has returned a result
Verified == Called("document_verifier") /\ tool_output.ok

\* the age in days of the stated document date on the day of the call;
\* -1 when no date is stated or the stated date is an empty string
DocumentAge ==
    LET data == tool_call.document_data
    IN  IF "document_date" \in DOMAIN data
           /\ "day" \in DOMAIN data.document_date
        THEN tool_day - data.document_date.day
        ELSE 0 - 1

\* C26: the not_expired check is false iff the document is proof_of_income
\* or bank_statements, a document date is stated, and that date is more
\* than 90 days before the day of the evaluation; a date exactly 90 days
\* old, a document of another kind, or a missing date leaves it true.
C26_NotExpiredFollowsFreshness ==
    Verified =>
        LET not_expired == tool_output.value.checks_performed.not_expired
            sensitive == tool_call.document_name \in
                            {"proof_of_income", "bank_statements"}
        IN  /\ not_expired \in {"true", "false"}
            /\ not_expired = "false" <=> (sensitive /\ DocumentAge > 90)
            /\ DocumentAge = 90 => not_expired = "true"
            /\ ~sensitive => not_expired = "true"
            /\ "document_date" \notin DOMAIN tool_call.document_data =>
                    not_expired = "true"

\* bank statements dated exactly 90 days before the day of the call, and
\* the same statements a day later
C26_Witness ==
    /\ Verified
    /\ CalledAgain
    /\ tool_call.document_name = "bank_statements"
    /\ prev_now = 0
    /\ tool_day = 1
    /\ DocumentAge = 91
    /\ prev_output.value.checks_performed.not_expired = "true"
    /\ tool_output.value.checks_performed.not_expired = "false"

\* C27: for every document, verification_passed is true iff all six checks
\* (document_present, legible, complete, not_expired, signatures_valid,
\* dates_consistent) are true, failed_checks lists exactly the checks that
\* are not, each once and in the order of the checks, and the
\* recommendation is VERIFIED iff verification_passed and
\* REQUIRES_ATTENTION otherwise.
C27_PassedIffAllChecksTrue ==
    Verified =>
        LET out == tool_output.value
            six == {"document_present", "legible", "complete", "not_expired",
                    "signatures_valid", "dates_consistent"}
            untrue == {k \in six : out.checks_performed[k] # "true"}
        IN  /\ DOMAIN out.checks_performed = six
            /\ out.verification_passed <=> untrue = {}
            /\ Range(out.failed_checks) = untrue
            /\ Len(out.failed_checks) = Cardinality(untrue)
            /\ out.recommendation =
                    IF out.verification_passed THEN "VERIFIED"
                    ELSE "REQUIRES_ATTENTION"

\* a stale proof of income with pages missing and a signature given as null
C27_Witness ==
    /\ Verified
    /\ tool_call.document_name = "proof_of_income"
    /\ "signed" \in DOMAIN tool_call.document_data
    /\ tool_call.document_data.signed = None
    /\ tool_output.value.failed_checks =
            <<"complete", "not_expired", "signatures_valid">>
    /\ ~tool_output.value.verification_passed
    /\ tool_output.value.recommendation = "REQUIRES_ATTENTION"

-----------------------------------------------------------------------------
(* Claims that relate the orchestrator, the record and the tools *)

\* what the document checker reports for the record the crew was built on
AuditOfRecord ==
    document_checker(init_record.loan_id, init_record.loan_type,
                     get_loan_context(init_record).documents_status)

\* C28: whenever the document checker reports action_required for the
\* record (a required document of its loan type is absent from the record,
\* pending or expired), the communication needs derived from the same
\* record hold a document request that names every such document.
C28_RequestNamesEveryAuditGap ==
    (communication_needs # NoObject /\ AuditOfRecord.action_required) =>
        /\ communication_needs.document_request # <<>>
        /\ Range(AuditOfRecord.missing_documents)
             \cup Range(AuditOfRecord.expired_documents)
                \subseteq Range(communication_needs.document_request)

\* C29: for every exception of a loaded record, to_dict marks it resolved
\* iff the orchestrator does not count it as active: the resolved flags of
\* the serialization and the active-exception count of the loan context and
\* of the communication needs agree, also for an exception whose
\* resolved_date is an empty string.
C29_ResolvedFlagAgreesWithActiveCount ==
    pc \in {"serialized", "reloaded", "reload_failed"} =>
        LET indices == 1..Len(loan_file.exceptions)
            unresolved == {i \in indices : ~dict_out.exceptions[i].resolved}
        IN  /\ \A i \in indices :
                    dict_out.exceptions[i].resolved <=>
                        loan_file.exceptions[i]
                            \notin Range(ActiveExceptions(loan_file))
            /\ get_loan_context(loan_file).active_exceptions =
                    Cardinality(unresolved)
            /\ get_communication_needs(loan_file).exception_notices =
                    Cardinality(unresolved)

=============================================================================
